---- MODULE Spec2Model ----
(***************************************************************************)
(* Scott Weather Service: the REST backend (Go, handler -> service ->      *)
(* repository) and the serverless functions (TypeScript).                  *)
(*                                                                         *)
(* Time is counted in minutes.  Coordinates are integers in units of       *)
(* 1e-4 degree.                                                            *)
(***************************************************************************)
EXTENDS Integers, Sequences, FiniteSets, TLC

VARIABLES
    now,            \* the wall clock (time.Now() / Date.now()), minutes
    \* ---- REST backend: weather service over the Redis cache repository
    redisClient,    \* weatherCacheRepository.client: "nil" or "connected"
    redisStore,     \* the Redis keyspace: key -> NoEntry or [value, expireAt]
    providerCalls,  \* number of http.Get calls made to the weather provider
    gw,             \* the GetCurrentWeather call in flight
    gwLast,         \* per arguments, the last completed call
    \* ---- serverless functions: the two-tier weather cache
    weatherCache,   \* the in-memory Map: key -> NoEntry or [data, timestamp, ttl]
    fsCache,        \* Firestore collection weather_cache: key -> NoEntry or doc
    cget,           \* the getCachedWeatherData call waiting for Firestore
    served,         \* what getCachedWeatherData has just returned
    \* ---- Go service: session tokens
    jwtToken,       \* the token string presented to the service
    jwtVerdict,     \* what ValidateToken has just answered for it
    \* ---- calendar connection: Go service and serverless functions
    calendarTokens, \* table calendar_tokens: the rows, a row's id is its index
    userDocs,       \* Firestore collection users: uid -> NoDoc or document
    userCalendar,   \* Firestore users/<uid>/calendar: what the last sync stored
    calOp,          \* the calendar operation that has just returned
    httpResp,       \* the HTTP request just answered by a function, and its answer
    \* ---- Go service: users
    users,          \* table users: the rows, a row's id is its index
    logins,         \* per request, the CreateOrUpdateUser call it is running
    loginHist,      \* the last two CreateOrUpdateUser calls that returned
    \* ---- Go service: the rate limiter
    rlCfg,          \* cfg.RateLimit: Requests and Duration
    visitors,       \* the map visitors: ip -> NoVisitor or [lastSeen, count]
    rlWindow,       \* per ip, the window its admitted requests are counted in
    rlLast,         \* the request the limiter has just answered
    \* ---- the forecast
    fcIn,           \* the forecast request: its hour and the provider's answer
    fcOut,          \* what the forecast request has just returned
    \* ---- the wind direction
    wind,           \* the wind reported, and the direction made of it
    \* ---- the pressure
    baro,           \* the pressure reported, and the pressure returned
    \* ---- the cache keys
    ckeys,          \* two requests, and the cache keys made for them
    \* ---- serverless functions: the location of a forecast
    loc,            \* what getDetailedLocation has just returned
    \* ---- Go service: concurrent weather requests
    flight,         \* per request, how far its GetCurrentWeather call has come
    lastFetch,      \* the latest return of a call that fetched from the provider
    \* ---- Go service: session refresh and profile update
    authResp,       \* the latest answer of RefreshToken or UpdateUser
    \* ---- coordinates of a weather request
    coord           \* the latest weather request's coordinates and what the check made of them

wvars == <<redisClient, redisStore, providerCalls, gw, gwLast>>

cvars == <<weatherCache, fsCache, cget, served>>

tvars == <<jwtToken, jwtVerdict>>

kvars == <<calendarTokens, userDocs, userCalendar, calOp, httpResp>>

uvars == <<users, logins, loginHist>>

rvars == <<rlCfg, visitors, rlWindow, rlLast>>

fvars == <<fcIn, fcOut>>

dvars == <<wind>>

pvars == <<baro>>

yvars == <<ckeys>>

lvars == <<loc>>

qvars == <<flight, lastFetch>>

avars == <<authResp>>

vvars == <<coord>>

vars == <<now, wvars, cvars, tvars, kvars, uvars, rvars, fvars, dvars, pvars, yvars, lvars, qvars, avars, vvars>>

\* The state outside each part of the system.
notW == <<cvars, tvars, kvars, uvars, rvars, fvars, dvars, pvars, yvars, lvars, qvars, avars, vvars>>
notC == <<wvars, tvars, kvars, uvars, rvars, fvars, dvars, pvars, yvars, lvars, qvars, avars, vvars>>
notT == <<wvars, cvars, kvars, uvars, rvars, fvars, dvars, pvars, yvars, lvars, qvars, avars, vvars>>
notK == <<wvars, cvars, tvars, uvars, rvars, fvars, dvars, pvars, yvars, lvars, qvars, avars, vvars>>
notU == <<wvars, cvars, tvars, kvars, rvars, fvars, dvars, pvars, yvars, lvars, qvars, avars, vvars>>
notR == <<wvars, cvars, tvars, kvars, uvars, fvars, dvars, pvars, yvars, lvars, qvars, avars, vvars>>
notF == <<wvars, cvars, tvars, kvars, uvars, rvars, dvars, pvars, yvars, lvars, qvars, avars, vvars>>
notD == <<wvars, cvars, tvars, kvars, uvars, rvars, fvars, pvars, yvars, lvars, qvars, avars, vvars>>
notP == <<wvars, cvars, tvars, kvars, uvars, rvars, fvars, dvars, yvars, lvars, qvars, avars, vvars>>
notY == <<wvars, cvars, tvars, kvars, uvars, rvars, fvars, dvars, pvars, lvars, qvars, avars, vvars>>
notL == <<wvars, tvars, kvars, uvars, rvars, fvars, dvars, pvars, yvars, qvars, avars, vvars>>
notQ == <<wvars, cvars, tvars, kvars, uvars, rvars, fvars, dvars, pvars, yvars, lvars, avars, vvars>>
notWQ == <<cvars, tvars, kvars, uvars, rvars, fvars, dvars, pvars, yvars, lvars, avars, vvars>>
notA == <<wvars, cvars, tvars, kvars, uvars, rvars, fvars, dvars, pvars, yvars, lvars, qvars, vvars>>
notTUA == <<wvars, cvars, kvars, rvars, fvars, dvars, pvars, yvars, lvars, qvars, vvars>>
notV == <<wvars, cvars, tvars, kvars, uvars, rvars, fvars, dvars, pvars, yvars, lvars, qvars, avars>>

NoEntry == [none |-> TRUE]
NoCall == [none |-> TRUE]
\* A failed provider call answered with data instead of an error.
ProviderErrorAsData == [condition |-> "unknown", timestamp |-> 0]

\* The error a failed provider call is answered with.
ProviderError == [error |-> "provider"]

(***************************************************************************)
(* Bounds of the model.                                                    *)
(***************************************************************************)
MaxTimeW == 5          \* the clock's range in the weather-service runs
MaxProviderCalls == 2  \* provider calls per run
MaxTimeC == 61         \* the clock's range in the serverless cache runs
MaxTimeT == 5          \* the clock's range in the session-token runs
JWTExpiration == 3     \* cfg.JWT.Expiration (JWT_EXPIRATION), scaled to minutes
MaxLogins == 2         \* login requests that can be in flight together
MaxTimeA == 3          \* the clock's range in the session-refresh runs
MaxTimeR == 8          \* the clock's range in the rate-limiter runs

(***************************************************************************)
(* REST backend: weatherService.GetCurrentWeather and the cache repository *)
(***************************************************************************)
WeatherCacheTTL == 5   \* cacheTTL: 5 * time.Minute

Observations == {"sunny", "rain"}

\* The requests of a run: (lat, lon, units).
WeatherArgs == {<<12342, 56789, "metric">>, <<12344, 56789, "metric">>}

\* fmt.Sprintf("%f", x): six decimals, here in units of 1e-6 degree.
FormatF(x) == x * 100

\* cacheKey := fmt.Sprintf("weather:current:%f:%f:%s", lat, lon, units)
CurrentCacheKey(args) == <<"weather:current", FormatF(args[1]), FormatF(args[2]), args[3]>>

WeatherKeys == {CurrentCacheKey(a) : a \in WeatherArgs}

\* client.Set(ctx, key, data, ttl): Redis drops the key ttl after the write.
RedisSetNoTTL(store, key, value, ttl) ==
    [store EXCEPT ![key] = [value |-> value, expireAt |-> now]]

RedisSet(store, key, value, ttl) ==
    [store EXCEPT ![key] = [value |-> value, expireAt |-> now + ttl]]

\* client.Get(ctx, key): redis.Nil for an absent or expired key.
RedisLive(store, key) ==
    /\ store[key] # NoEntry
    /\ now < store[key].expireAt

\* weatherCacheRepository.Set: a no-op without a client; the caller ignores
\* the error of a failed write.
CacheRepoSet(store, key, value, ttl, ok) ==
    IF redisClient = "nil" \/ ~ok THEN store
    ELSE RedisSet(store, key, value, ttl)

\* weatherCacheRepository.Get: redis.Nil without a client; any error is a miss
\* for the caller.
CacheRepoHit(store, key, ok) ==
    /\ redisClient # "nil"
    /\ ok
    /\ RedisLive(store, key)

\* The record of a completed call.
Completed(call, result, cached) ==
    [args |-> call.args, getOk |-> call.getOk, setOk |-> call.setOk,
     calls |-> call.calls, result |-> result, cached |-> cached, end |-> now]

\* GetCurrentWeather, up to the provider request: the cache lookup, and on a
\* hit the return of the cached value.
GwStart(args, getOk) ==
    /\ gw = NoCall
    /\ LET key == CurrentCacheKey(args)
           call == [args |-> args, getOk |-> getOk, setOk |-> TRUE,
                    calls |-> 0]
       IN IF CacheRepoHit(redisStore, key, getOk)
          THEN /\ gwLast' = [gwLast EXCEPT ![args] =
                                   Completed(call, redisStore[key].value, TRUE)]
               /\ UNCHANGED <<gw, providerCalls>>
          ELSE /\ providerCalls < MaxProviderCalls
               /\ gw' = [call EXCEPT !.calls = 1]
               /\ providerCalls' = providerCalls + 1
               /\ UNCHANGED gwLast
    /\ UNCHANGED <<now, redisClient, redisStore, notW>>

\* The provider fails (network error or non-200): the call returns the error.
GwProviderError ==
    /\ gw # NoCall
    /\ gwLast' = [gwLast EXCEPT ![gw.args] = Completed(gw, ProviderError, FALSE)]
    /\ gw' = NoCall
    /\ UNCHANGED <<now, redisClient, redisStore, providerCalls, notW>>

\* The provider answers: the response is converted, cached and returned.
GwProviderOk(obs, setOk) ==
    /\ gw # NoCall
    /\ LET data == [condition |-> obs, timestamp |-> now]
           key == CurrentCacheKey(gw.args)
       IN /\ redisStore' = CacheRepoSet(redisStore, key, data, WeatherCacheTTL, setOk)
          /\ gwLast' = [gwLast EXCEPT ![gw.args] =
                              Completed([gw EXCEPT !.setOk = setOk], data, FALSE)]
    /\ gw' = NoCall
    /\ UNCHANGED <<now, redisClient, providerCalls, notW>>

TickW ==
    /\ now < MaxTimeW
    /\ now' = now + 1
    /\ UNCHANGED <<wvars, notW>>

InitW ==
    /\ redisClient \in {"nil", "connected"}
    /\ redisStore = [k \in WeatherKeys |-> NoEntry]
    /\ providerCalls = 0
    /\ gw = NoCall
    /\ gwLast = [a \in WeatherArgs |-> NoCall]

(***************************************************************************)
(* Serverless functions: modules/shared/cache.ts                           *)
(***************************************************************************)
CACHE_TTL_CURRENT_WEATHER == 1   \* 1 * 60 * 1000 ms
CACHE_TTL_FORECAST == 1          \* 1 * 60 * 1000 ms
CACHE_TTL_LOCATION == 60         \* 60 * 60 * 1000 ms
CACHE_TTL_FIRESTORE_CACHE == 30  \* 30 * 60 * 1000 ms

\* Math.round(x * 1000) / 1000 of a coordinate, in units of 1e-3 degree
\* (Math.round rounds halves up).
Round3(x) == (x + 5) \div 10

\* getCacheKey(type, latitude, longitude, units)
getCacheKey(type, lat, lon, units) == <<type, Round3(lat), Round3(lon), units>>

\* getLocationCacheKey(latitude, longitude)
getLocationCacheKey(lat, lon) == <<"location", Round3(lat), Round3(lon)>>

\* The keys of a run.
TsKeys == {getCacheKey("current", 12342, 56789, "metric"),
           getCacheKey("forecast", 12342, 56789, "metric"),
           getLocationCacheKey(12342, 56789)}

\* The TTL each caller passes with its kind of key.
TtlOf(key) ==
    CASE key[1] = "current" -> CACHE_TTL_CURRENT_WEATHER
      [] key[1] = "forecast" -> CACHE_TTL_FORECAST
      [] key[1] = "location" -> CACHE_TTL_LOCATION

\* A run works on one key: no other key has been written.
OnlyKey(k) ==
    \A j \in TsKeys \ {k} : weatherCache[j] = NoEntry /\ fsCache[j] = NoEntry

isCacheValidInclusive(timestamp, ttl) == now - timestamp <= ttl

\* isCacheValid(timestamp, ttl): Date.now() - timestamp < ttl
isCacheValid(timestamp, ttl) == now - timestamp < ttl

NoResponse == [none |-> TRUE]

\* getCachedWeatherData, the in-memory tier.
GetCachedMemory(k) ==
    /\ cget = NoCall
    /\ OnlyKey(k)
    /\ LET memoryCache == weatherCache[k]
       IN IF memoryCache # NoEntry /\ isCacheValid(memoryCache.timestamp, memoryCache.ttl)
          THEN /\ served' = [key |-> k, tier |-> "memory", data |-> memoryCache.data]
               /\ cget' = cget
          ELSE /\ cget' = [key |-> k, ttl |-> TtlOf(k)]
               /\ served' = NoResponse
    /\ UNCHANGED <<now, weatherCache, fsCache, notC>>

\* getCachedWeatherData, the Firestore tier: a valid document is copied into
\* the in-memory tier; a failed read is a miss.
GetCachedFirestore(readOk) ==
    /\ cget # NoCall
    /\ LET k == cget.key
           cacheData == fsCache[k]
       IN IF readOk /\ cacheData # NoEntry /\ isCacheValid(cacheData.timestamp, cget.ttl)
          THEN /\ weatherCache' = [weatherCache EXCEPT ![k] =
                      [data |-> cacheData.data, timestamp |-> cacheData.timestamp,
                       ttl |-> cget.ttl]]
               /\ served' = [key |-> k, tier |-> "firestore", data |-> cacheData.data]
          ELSE /\ served' = [key |-> k, tier |-> "null"]
               /\ UNCHANGED weatherCache
    /\ cget' = NoCall
    /\ UNCHANGED <<now, fsCache, notC>>

\* setCachedWeatherData(cacheKey, data, ttl) with freshly fetched data; a
\* failed Firestore write is logged and ignored.
SetCached(k, writeOk) ==
    /\ OnlyKey(k)
    /\ LET timestamp == now
           data == [fetchedAt |-> now]
       IN /\ weatherCache' = [weatherCache EXCEPT ![k] =
                 [data |-> data, timestamp |-> timestamp, ttl |-> TtlOf(k)]]
          /\ fsCache' = IF writeOk
                        THEN [fsCache EXCEPT ![k] =
                                [data |-> data, timestamp |-> timestamp,
                                 ttl |-> CACHE_TTL_FIRESTORE_CACHE]]
                        ELSE fsCache
    /\ served' = NoResponse
    /\ UNCHANGED <<now, cget, notC>>

\* A new function instance starts with an empty in-memory Map.
ColdStart ==
    /\ cget = NoCall
    /\ weatherCache' = [k \in TsKeys |-> NoEntry]
    /\ served' = NoResponse
    /\ UNCHANGED <<now, fsCache, cget, notC>>

TickC ==
    /\ now < MaxTimeC
    /\ now' = now + 1
    /\ served' = NoResponse
    /\ UNCHANGED <<weatherCache, fsCache, cget, notC>>

InitC ==
    /\ weatherCache = [k \in TsKeys |-> NoEntry]
    /\ fsCache = [k \in TsKeys |-> NoEntry]
    /\ cget = NoCall
    /\ served = NoResponse

NextC ==
    \/ \E k \in TsKeys : GetCachedMemory(k)
    \/ \E ok \in BOOLEAN : GetCachedFirestore(ok)
    \/ \E k \in TsKeys, ok \in BOOLEAN : SetCached(k, ok)
    \/ ColdStart
    \/ TickC

(***************************************************************************)
(* Go service: session tokens (authService.GenerateToken / ValidateToken)  *)
(***************************************************************************)
ServerSecret == "jwt-secret"
AttackerSecret == "guessed"
Secrets == {ServerSecret, AttackerSecret}
HMACMethods == {"HS256", "HS384", "HS512"}
Methods == {"HS256", "HS384", "none", "RS256"}
UserIDs == {1, 2}
EmailOf(id) == IF id = 1 THEN "a@example.com" ELSE "b@example.com"

NoToken == [none |-> TRUE]
NoVerdict == [none |-> TRUE]

\* The MAC of a signing input (header and claims) under a key: equal MACs
\* mean equal method, key and claims.
Sign(alg, key, claims) == [alg |-> alg, key |-> key, claims |-> claims]

\* token.SignedString(key): header.claims.signature
SignedString(alg, key, claims) ==
    [alg |-> alg, claims |-> claims, sig |-> Sign(alg, key, claims)]

\* The claims GenerateToken writes for a user.
TokenClaims(id) ==
    [user_id |-> id, email |-> EmailOf(id), exp |-> now + JWTExpiration, iat |-> now]

\* The key function given to jwt.Parse: only HMAC methods get the secret.
KeyFuncOk(t) == t.alg \in HMACMethods

\* The method's Verify over the signing input with the server secret.
SignatureOk(t) == t.sig = Sign(t.alg, ServerSecret, t.claims)

ExpiryIgnored(t) == TRUE

\* The claims validator: the token is valid strictly before exp.
ExpiryOk(t) == now < t.claims.exp

\* ValidateToken: nil error and the claims, or an error.
ValidateToken(t) ==
    IF KeyFuncOk(t) /\ SignatureOk(t) /\ ExpiryOk(t)
    THEN [ok |-> TRUE, claims |-> t.claims]
    ELSE [ok |-> FALSE]

\* A login issues a token for a user.
GenerateToken(id) ==
    /\ jwtToken' = SignedString("HS256", ServerSecret, TokenClaims(id))
    /\ jwtVerdict' = NoVerdict
    /\ UNCHANGED <<now, notT>>

\* The holder of an issued token rewrites its claims and keeps the signature.
TamperClaims(id, later) ==
    /\ jwtToken # NoToken
    /\ jwtToken.sig.claims = jwtToken.claims
    /\ LET claims == [jwtToken.claims EXCEPT !.user_id = id, !.email = EmailOf(id),
                                            !.exp = @ + later]
       IN /\ claims # jwtToken.claims
          /\ jwtToken' = [jwtToken EXCEPT !.claims = claims]
    /\ jwtVerdict' = NoVerdict
    /\ UNCHANGED <<now, notT>>

\* The holder of an issued token rewrites its header's method.
TamperMethod(alg) ==
    /\ jwtToken # NoToken
    /\ alg # jwtToken.alg
    /\ jwtToken' = [jwtToken EXCEPT !.alg = alg]
    /\ jwtVerdict' = NoVerdict
    /\ UNCHANGED <<now, notT>>

\* Somebody without the server secret makes a token of their own.
ForgeToken(id, alg) ==
    /\ jwtToken' = SignedString(alg, AttackerSecret, TokenClaims(id))
    /\ jwtVerdict' = NoVerdict
    /\ UNCHANGED <<now, notT>>

\* The service validates the presented token.
Validate ==
    /\ jwtToken # NoToken
    /\ jwtVerdict' = ValidateToken(jwtToken)
    /\ UNCHANGED <<now, jwtToken, notT>>

TickT ==
    /\ now < MaxTimeT
    /\ now' = now + 1
    /\ jwtVerdict' = NoVerdict
    /\ UNCHANGED <<jwtToken, notT>>

InitT ==
    /\ jwtToken = NoToken
    /\ jwtVerdict = NoVerdict

NextT ==
    \/ \E id \in UserIDs : GenerateToken(id)
    \/ \E id \in UserIDs, later \in {0, 1} : TamperClaims(id, later)
    \/ \E alg \in Methods : TamperMethod(alg)
    \/ \E id \in UserIDs, alg \in Methods : ForgeToken(id, alg)
    \/ Validate
    \/ TickT

(***************************************************************************)
(* Calendar connection, Go service: calendarService over calendarRepository *)
(***************************************************************************)
AccessTokens == {"ya29.a", "ya29.b"}
NoOp == [none |-> TRUE]

\* rows WHERE user_id = ? AND deleted_at IS NULL (gorm's soft-delete scope)
LiveTokenIds(rows, userID) ==
    {i \in DOMAIN rows : rows[i].userID = userID /\ ~rows[i].deleted}

\* repo.GetTokenByUserID found a row
HasLiveToken(rows, userID) == LiveTokenIds(rows, userID) # {}

\* repo.GetTokenByUserID: the First row
GetTokenByUserID(rows, userID) ==
    CHOOSE i \in LiveTokenIds(rows, userID) :
        \A j \in LiveTokenIds(rows, userID) : i <= j

\* The unique index on user_id covers soft-deleted rows as well.
UserIDTaken(rows, userID) == \E i \in DOMAIN rows : rows[i].userID = userID

NewCalendarTokenBlank(userID, accessToken) ==
    [userID |-> userID, accessToken |-> "", deleted |-> FALSE]

\* The row SaveToken builds from the OAuth token.
NewCalendarToken(userID, accessToken) ==
    [userID |-> userID, accessToken |-> accessToken, deleted |-> FALSE]

GoOp(op, userID, had, err) ==
    [side |-> "go", op |-> op, user |-> userID, had |-> had, err |-> err,
     provider |-> FALSE, events |-> "none", token |-> ""]

\* calendarService.SaveToken
SaveToken(userID, accessToken) ==
    /\ LET row == NewCalendarToken(userID, accessToken)
           had == HasLiveToken(calendarTokens, userID)
       IN IF had
          THEN \* repo.UpdateToken: db.Save on the existing id
               /\ calendarTokens' =
                      [calendarTokens EXCEPT ![GetTokenByUserID(calendarTokens, userID)] = row]
               /\ calOp' = [GoOp("SaveToken", userID, had, "nil") EXCEPT !.token = accessToken]
          ELSE \* repo.SaveToken: db.Create
               IF UserIDTaken(calendarTokens, userID)
               THEN /\ calOp' = [GoOp("SaveToken", userID, had, "duplicate key")
                                   EXCEPT !.token = accessToken]
                    /\ UNCHANGED calendarTokens
               ELSE /\ calendarTokens' = Append(calendarTokens, row)
                    /\ calOp' = [GoOp("SaveToken", userID, had, "nil")
                                   EXCEPT !.token = accessToken]
    /\ UNCHANGED <<now, userDocs, userCalendar, httpResp, notK>>

\* calendarService.DisconnectCalendar: repo.DeleteToken, a soft delete
DisconnectCalendar(userID) ==
    /\ calendarTokens' =
           [i \in DOMAIN calendarTokens |->
               IF i \in LiveTokenIds(calendarTokens, userID)
               THEN [calendarTokens[i] EXCEPT !.deleted = TRUE]
               ELSE calendarTokens[i]]
    /\ calOp' = GoOp("DisconnectCalendar", userID, HasLiveToken(calendarTokens, userID), "nil")
    /\ UNCHANGED <<now, userDocs, userCalendar, httpResp, notK>>

\* calendarService.GetCalendarStatus: repo.HasToken
GetCalendarStatus(userID) ==
    /\ calOp' = [GoOp("GetCalendarStatus", userID, HasLiveToken(calendarTokens, userID), "nil")
                   EXCEPT !.events = IF HasLiveToken(calendarTokens, userID)
                                     THEN "connected" ELSE "not connected"]
    /\ UNCHANGED <<now, calendarTokens, userDocs, userCalendar, httpResp, notK>>

\* calendarService.GetCalendarEvents
GetCalendarEvents(userID, providerOk) ==
    /\ LET had == HasLiveToken(calendarTokens, userID)
       IN calOp' =
            IF ~had
            THEN GoOp("GetCalendarEvents", userID, had, "no calendar token found")
            ELSE IF providerOk
            THEN [GoOp("GetCalendarEvents", userID, had, "nil")
                    EXCEPT !.provider = TRUE, !.events = "google"]
            ELSE [GoOp("GetCalendarEvents", userID, had, "failed to fetch calendar events")
                    EXCEPT !.provider = TRUE]
    /\ UNCHANGED <<now, calendarTokens, userDocs, userCalendar, httpResp, notK>>

(***************************************************************************)
(* Calendar connection, serverless functions.  A Firebase user is named by *)
(* a number here as well.                                                  *)
(***************************************************************************)
NoDoc == [none |-> TRUE]
Null == [null |-> TRUE]
NoHeader == [none |-> TRUE]

\* Authorization headers: none, a bearer string that is no ID token, and a
\* genuine Firebase ID token of each user.
Bearer(token) == [bearer |-> token]
IdToken(uid) == [uid |-> uid]
GarbageToken == [garbage |-> TRUE]
AuthHeaders == {NoHeader, Bearer(GarbageToken)} \cup {Bearer(IdToken(u)) : u \in UserIDs}

\* admin.auth().verifyIdToken resolves for a genuine ID token, with its uid.
verifyIdToken(authHeader) ==
    authHeader # NoHeader /\ authHeader.bearer \in {IdToken(u) : u \in UserIDs}
UidOf(authHeader) == authHeader.bearer.uid

OAuthToken(accessToken) == [access_token |-> accessToken, type |-> "oauth_token"]
JwtCredential == [access_token |-> "", type |-> "jwt_credential"]

\* set({googleCalendarToken: ...}, {merge: true}) creates or merges.
SetMerge(docs, uid, token) == [docs EXCEPT ![uid] = [googleCalendarToken |-> token]]

\* userData?.googleCalendarToken is truthy
HasGoogleToken(docs, uid) ==
    docs[uid] # NoDoc /\ docs[uid].googleCalendarToken # Null

\* userData?.googleCalendarToken?.access_token is truthy
HasAccessToken(docs, uid) ==
    HasGoogleToken(docs, uid) /\ docs[uid].googleCalendarToken.access_token # ""

FnOp(op, uid, had, err) ==
    [side |-> "functions", op |-> op, user |-> uid, had |-> had, err |-> err,
     provider |-> FALSE, events |-> "none", token |-> ""]

\* storeCalendarTokens(userId, tokens)
storeCalendarTokens(uid, accessToken) ==
    /\ userDocs' = SetMerge(userDocs, uid, OAuthToken(accessToken))
    /\ calOp' = [FnOp("storeCalendarTokens", uid, HasGoogleToken(userDocs, uid), "nil")
                   EXCEPT !.token = accessToken]
    /\ UNCHANGED <<now, calendarTokens, userCalendar, httpResp, notK>>

\* clearCalendarTokens(userId): update() rejects when the document is missing,
\* and the rejection is rethrown.
clearCalendarTokens(uid) ==
    /\ IF userDocs[uid] = NoDoc
       THEN /\ calOp' = FnOp("clearCalendarTokens", uid, FALSE, "NOT_FOUND")
            /\ UNCHANGED userDocs
       ELSE /\ userDocs' = [userDocs EXCEPT ![uid].googleCalendarToken = Null]
            /\ calOp' = FnOp("clearCalendarTokens", uid, HasGoogleToken(userDocs, uid), "nil")
    /\ UNCHANGED <<now, calendarTokens, userCalendar, httpResp, notK>>

\* getCalendarEventsWithAuth(userId, request)
getCalendarEventsWithAuth(uid, providerOk) ==
    /\ LET had == HasGoogleToken(userDocs, uid)
       IN calOp' =
            IF userDocs[uid] = NoDoc
            THEN FnOp("getCalendarEventsWithAuth", uid, had, "User not found")
            ELSE IF ~HasAccessToken(userDocs, uid)
            THEN FnOp("getCalendarEventsWithAuth", uid, had, "No calendar access token found")
            ELSE IF providerOk
            THEN [FnOp("getCalendarEventsWithAuth", uid, had, "nil")
                    EXCEPT !.provider = TRUE, !.events = "google"]
            ELSE [FnOp("getCalendarEventsWithAuth", uid, had, "Failed to fetch calendar events")
                    EXCEPT !.provider = TRUE]
    /\ UNCHANGED <<now, calendarTokens, userDocs, userCalendar, httpResp, notK>>

\* getCalendarEvents(authHeader) of the HTTP calendar API: what it returns
\* and whether it called the provider.  Every failure falls back to
\* getMockCalendarData().
getCalendarEvents(authHeader, providerOk) ==
    IF ~verifyIdToken(authHeader)
    THEN [events |-> "mock", provider |-> FALSE]
    ELSE IF ~HasGoogleToken(userDocs, UidOf(authHeader))
    THEN [events |-> "mock", provider |-> FALSE]
    ELSE IF userDocs[UidOf(authHeader)].googleCalendarToken.type = "jwt_credential"
    THEN [events |-> "mock", provider |-> FALSE]
    ELSE IF ~HasAccessToken(userDocs, UidOf(authHeader))
    THEN [events |-> "mock", provider |-> FALSE]
    ELSE IF providerOk
    THEN [events |-> "google", provider |-> TRUE]
    ELSE [events |-> "mock", provider |-> TRUE]

\* A call of getCalendarEvents(authHeader) through the calendar API.
ListEventsHttp(authHeader, providerOk) ==
    /\ authHeader # NoHeader
    /\ LET r == getCalendarEvents(authHeader, providerOk)
           uid == IF verifyIdToken(authHeader) THEN UidOf(authHeader) ELSE 0
           had == verifyIdToken(authHeader) /\ HasGoogleToken(userDocs, uid)
       IN calOp' = [FnOp("getCalendarEvents", uid, had, "nil")
                      EXCEPT !.provider = r.provider, !.events = r.events]
    /\ UNCHANGED <<now, calendarTokens, userDocs, userCalendar, httpResp, notK>>

(***************************************************************************)
(* Serverless functions: the HTTP entry points                             *)
(***************************************************************************)
AllowedOrigins == {"http://localhost:3000", "https://scott-weather-service.web.app",
                   "https://scott-weather-service.firebaseapp.com"}
Origins == {"none", "http://localhost:3000", "https://evil.example"}
HttpMethods == {"GET", "POST", "DELETE", "OPTIONS"}
WeatherPaths == {"/current", "/forecast", "/other"}
CalendarPaths == {"/events", "/sync", "/auth", "/other"}
\* body.googleToken: absent, a Google Identity Services credential ("eyJ..."),
\* or an OAuth token object
GoogleTokens == {"absent", "eyJ"} \cup AccessTokens

Request(api, origin, method, path, authHeader) ==
    [api |-> api, origin |-> origin, method |-> method, path |-> path,
     authorization |-> authHeader]

\* The origin whitelist and the preflight answer, shared by the three
\* entry points: the response that ends the request here, if any.
CorsRejects(req) == req.origin \notin AllowedOrigins
Preflight(req) == req.method = "OPTIONS"

\* onRequest({cors: true}, handler): the cors middleware runs ahead of the
\* handler.  It answers an OPTIONS request itself, and it sets
\* Access-Control-Allow-Origin to the Origin the request carries.
CorsOptionEnds(req) == req.method = "OPTIONS"
CorsOptionOrigin(req) == IF req.origin = "none" THEN "unset" ELSE req.origin

\* The Access-Control-Allow-Origin header of the response: what the
\* middleware set, then the handler's res.set for an origin on its list.
AccessControlAllowOrigin(req) ==
    IF ~CorsOptionEnds(req) /\ ~CorsRejects(req) THEN req.origin
    ELSE CorsOptionOrigin(req)

\* res.status(code).json(body); data names what the body carries of the
\* service's user, weather, calendar or recommendation data.
Response(req, status, body, data) ==
    [req |-> req, status |-> status, body |-> body, data |-> data,
     allowOrigin |-> AccessControlAllowOrigin(req)]

\* weatherApi
WeatherApi(req) ==
    /\ httpResp' =
         IF CorsOptionEnds(req) THEN Response(req, 204, "", "none")
         ELSE IF CorsRejects(req) THEN Response(req, 403, "CORS policy violation", "none")
         ELSE IF Preflight(req) THEN Response(req, 204, "", "none")
         ELSE IF req.method # "GET" THEN Response(req, 405, "Method not allowed", "none")
         ELSE IF req.path = "/current" THEN Response(req, 200, "weatherData", "weather")
         ELSE IF req.path = "/forecast" THEN Response(req, 200, "forecastData", "weather")
         ELSE Response(req, 404, "Endpoint not found", "none")
    /\ UNCHANGED <<now, calendarTokens, userDocs, userCalendar, calOp, notK>>

\* handleCalendarAuth(authHeader, body): the documents afterwards
handleCalendarAuthDocs(authHeader, googleToken) ==
    IF ~verifyIdToken(authHeader) \/ googleToken = "absent"
    THEN userDocs
    ELSE IF googleToken = "eyJ"
    THEN SetMerge(userDocs, UidOf(authHeader), JwtCredential)
    ELSE SetMerge(userDocs, UidOf(authHeader), OAuthToken(googleToken))

\* handleCalendarAuth(authHeader, body): the result object
handleCalendarAuthResult(authHeader, googleToken) ==
    IF ~verifyIdToken(authHeader) THEN "success: false, auth error"
    ELSE IF googleToken = "absent" THEN "success: false, token required"
    ELSE "success: true"

\* syncCalendarEvents(authHeader): the user's calendar collection afterwards
syncCalendarEventsStore(authHeader, providerOk) ==
    IF ~verifyIdToken(authHeader)
    THEN userCalendar
    ELSE [userCalendar EXCEPT ![UidOf(authHeader)] =
             getCalendarEvents(authHeader, providerOk).events]

\* calendarApi
CalendarApi(req, googleToken, providerOk) ==
    LET authHeader == req.authorization
        events == getCalendarEvents(authHeader, providerOk).events
        Ends(resp) == httpResp' = resp /\ UNCHANGED <<userDocs, userCalendar>>
    IN
    /\ IF CorsOptionEnds(req) THEN Ends(Response(req, 204, "", "none"))
       ELSE IF CorsRejects(req) THEN Ends(Response(req, 403, "CORS policy violation", "none"))
       ELSE IF Preflight(req) THEN Ends(Response(req, 204, "", "none"))
       ELSE IF authHeader = NoHeader
       THEN Ends(Response(req, 401, "Authorization header required", "none"))
       ELSE IF req.method \notin {"GET", "POST"}
       THEN Ends(Response(req, 405, "Method not allowed", "none"))
       ELSE IF req.path = "/events" /\ req.method = "GET"
       THEN Ends(Response(req, 200, "events", events))
       ELSE IF req.path = "/sync"
       THEN /\ userCalendar' = syncCalendarEventsStore(authHeader, providerOk)
            /\ httpResp' = IF verifyIdToken(authHeader)
                           THEN Response(req, 200, "success: true", events)
                           ELSE Response(req, 200, "success: false", "none")
            /\ UNCHANGED userDocs
       ELSE IF req.path = "/auth"
       THEN /\ userDocs' = handleCalendarAuthDocs(authHeader, googleToken)
            /\ httpResp' = Response(req, 200,
                                    handleCalendarAuthResult(authHeader, googleToken), "none")
            /\ UNCHANGED userCalendar
       ELSE Ends(Response(req, 404, "Endpoint not found", "none"))
    /\ UNCHANGED <<now, calendarTokens, calOp, notK>>

\* recommendationsApi: generateRecommendations only logs the header.
RecommendationsApi(req) ==
    /\ httpResp' =
         IF CorsOptionEnds(req) THEN Response(req, 204, "", "none")
         ELSE IF CorsRejects(req) THEN Response(req, 403, "CORS policy violation", "none")
         ELSE IF Preflight(req) THEN Response(req, 204, "", "none")
         ELSE IF req.authorization = NoHeader
         THEN Response(req, 401, "Authorization header required", "none")
         ELSE IF req.method = "GET"
         THEN Response(req, 200, "recommendations", "recommendations")
         ELSE Response(req, 405, "Method not allowed", "none")
    /\ UNCHANGED <<now, calendarTokens, userDocs, userCalendar, calOp, notK>>

\* The HTTP runs follow the requests made in the name of one user.
HttpUser == CHOOSE u \in UserIDs : \A v \in UserIDs : u <= v
HttpAuthHeaders == {NoHeader, Bearer(GarbageToken), Bearer(IdToken(HttpUser))}

NextH ==
    \/ \E o \in Origins, m \in HttpMethods, p \in WeatherPaths, h \in HttpAuthHeaders :
           WeatherApi(Request("weatherApi", o, m, p, h))
    \/ \E o \in Origins, m \in HttpMethods, p \in CalendarPaths, h \in HttpAuthHeaders :
         \E g \in IF p = "/auth" THEN GoogleTokens ELSE {"absent"},
            ok \in IF p \in {"/events", "/sync"} THEN BOOLEAN ELSE {TRUE} :
           CalendarApi(Request("calendarApi", o, m, p, h), g, ok)
    \/ \E o \in Origins, m \in HttpMethods, h \in HttpAuthHeaders :
           RecommendationsApi(Request("recommendationsApi", o, m, "/", h))

InitK ==
    /\ calendarTokens = <<>>
    /\ userDocs = [u \in UserIDs |-> NoDoc]
    /\ userCalendar = [u \in UserIDs |-> "none"]
    /\ calOp = NoOp
    /\ httpResp = [none |-> TRUE]

NextK ==
    \/ \E u \in UserIDs, t \in AccessTokens : SaveToken(u, t)
    \/ \E u \in UserIDs : DisconnectCalendar(u)
    \/ \E u \in UserIDs : GetCalendarStatus(u)
    \/ \E u \in UserIDs, ok \in BOOLEAN : GetCalendarEvents(u, ok)
    \/ \E u \in UserIDs, t \in AccessTokens : storeCalendarTokens(u, t)
    \/ \E u \in UserIDs : clearCalendarTokens(u)
    \/ \E u \in UserIDs, ok \in BOOLEAN : getCalendarEventsWithAuth(u, ok)
    \/ \E h \in AuthHeaders, ok \in BOOLEAN : ListEventsHttp(h, ok)

(***************************************************************************)
(* Go service: users (authService.CreateOrUpdateUser over userRepository)  *)
(***************************************************************************)
LoginProcs == 1..MaxLogins
ProviderIDs == {"sub-1", "sub-2"}
Emails == {"a@example.com", "b@example.com"}
LoginArgs == [email : Emails, provider : {"google"}, providerID : ProviderIDs]
Idle == [pc |-> "idle"]
NoLogin == [none |-> TRUE]

\* userRepo.GetByProviderID: the id of the First row, 0 for record not found
GetByProviderIDNone(rows, providerID) == 0

GetByProviderID(rows, providerID) ==
    IF \E i \in DOMAIN rows : rows[i].providerID = providerID
    THEN CHOOSE i \in DOMAIN rows :
            /\ rows[i].providerID = providerID
            /\ \A j \in DOMAIN rows : rows[j].providerID = providerID => i <= j
    ELSE 0

ProviderIDNeverTaken(rows, providerID, self) == FALSE

\* The unique index on users.provider_id
ProviderIDTaken(rows, providerID, self) ==
    \E i \in DOMAIN rows : i # self /\ rows[i].providerID = providerID

\* The unique index on users.email
EmailTaken(rows, email, self) ==
    \E i \in DOMAIN rows : i # self /\ rows[i].email = email

\* What a returned call leaves in the history.
Returned(args, ok, id, rows) ==
    [args |-> args, ok |-> ok, id |-> id, count |-> Len(rows)]

\* CreateOrUpdateUser, up to the answer of GetByProviderID
LoginLookup(p, args) ==
    /\ logins[p] = Idle
    /\ LET id == GetByProviderID(users, args.providerID)
       IN logins' = [logins EXCEPT ![p] =
             [pc |-> "write", args |-> args, id |-> id,
              user |-> IF id = 0 THEN NoLogin ELSE users[id]]]
    /\ UNCHANGED <<now, users, loginHist, notU>>

\* CreateOrUpdateUser, from there: userRepo.Update (db.Save of the row read)
\* or userRepo.Create
LoginWrite(p) ==
    /\ logins[p] # Idle
    /\ LET call == logins[p]
           args == call.args
       IN IF call.id # 0
          THEN LET user == [call.user EXCEPT !.email = args.email, !.lastLogin = now]
               IN IF \/ EmailTaken(users, user.email, call.id)
                     \/ ProviderIDTaken(users, user.providerID, call.id)
                  THEN /\ loginHist' = <<loginHist[2], Returned(args, FALSE, 0, users)>>
                       /\ UNCHANGED users
                  ELSE /\ users' = [users EXCEPT ![call.id] = user]
                       /\ loginHist' = <<loginHist[2], Returned(args, TRUE, call.id, users')>>
          ELSE LET newUser == [email |-> args.email, provider |-> args.provider,
                               providerID |-> args.providerID, units |-> "imperial",
                               lastLogin |-> now]
               IN IF \/ EmailTaken(users, newUser.email, 0)
                     \/ ProviderIDTaken(users, newUser.providerID, 0)
                  THEN /\ loginHist' = <<loginHist[2], Returned(args, FALSE, 0, users)>>
                       /\ UNCHANGED users
                  ELSE /\ users' = Append(users, newUser)
                       /\ loginHist' =
                             <<loginHist[2], Returned(args, TRUE, Len(users'), users')>>
    /\ logins' = [logins EXCEPT ![p] = Idle]
    /\ UNCHANGED <<now, notU>>

InitU ==
    /\ users = <<>>
    /\ logins = [p \in LoginProcs |-> Idle]
    /\ loginHist = <<NoLogin, NoLogin>>

\* Logins one after the other: a call starts when none is running.
LoginLookupAlone(p, args) ==
    /\ \A q \in LoginProcs : logins[q] = Idle
    /\ LoginLookup(p, args)

NextUSeq ==
    \/ \E p \in LoginProcs, args \in LoginArgs : LoginLookupAlone(p, args)
    \/ \E p \in LoginProcs : LoginWrite(p)

\* Concurrent logins.
NextU ==
    \/ \E p \in LoginProcs, args \in LoginArgs : LoginLookup(p, args)
    \/ \E p \in LoginProcs : LoginWrite(p)

(***************************************************************************)
(* Go service: middleware.RateLimiter and its sweep                        *)
(***************************************************************************)
ClientIPs == {"10.0.0.1", "10.0.0.2"}
NoVisitor == [none |-> TRUE]

\* cfg.RateLimit as the environment can set it (RATE_LIMIT_REQUESTS,
\* RATE_LIMIT_DURATION): small request counts, and a window shorter and one
\* longer than the sweep's idle time.
RateLimitConfigs == [Requests : {1, 2}, Duration : {1, 6}]
DefaultRateLimit == [Requests |-> 2, Duration |-> 1]

\* The sweep's idle time, 5*time.Minute
SweepIdle == 5

\* The window the limiter's answers are held against: it opens with an
\* admitted request and lasts until more than Duration has passed.
NoWindow == [none |-> TRUE]
WindowOpen(w) == w # NoWindow /\ ~(now - w.open > rlCfg.Duration)
Admit(w) ==
    IF WindowOpen(w)
    THEN [w EXCEPT !.admitted = @ + 1]
    ELSE [open |-> now, admitted |-> 1, rejected |-> FALSE]

Admitted(ip) ==
    /\ rlWindow' = [rlWindow EXCEPT ![ip] = Admit(rlWindow[ip])]
    /\ rlLast' = [ip |-> ip, status |-> 200, next |-> TRUE]

\* The handler RateLimiter returns, for one request; it runs under mu.
RateLimiter(ip) ==
    /\ LET v == visitors[ip]
       IN IF v = NoVisitor
          THEN /\ visitors' = [visitors EXCEPT ![ip] = [lastSeen |-> now, count |-> 1]]
               /\ Admitted(ip)
          ELSE IF now - v.lastSeen > rlCfg.Duration
          THEN /\ visitors' = [visitors EXCEPT ![ip] = [lastSeen |-> now, count |-> 1]]
               /\ Admitted(ip)
          ELSE IF v.count >= rlCfg.Requests
          THEN /\ rlLast' = [ip |-> ip, status |-> 429, next |-> FALSE]
               /\ rlWindow' = [rlWindow EXCEPT ![ip].rejected = TRUE]
               /\ UNCHANGED visitors
          ELSE /\ visitors' = [visitors EXCEPT ![ip].count = @ + 1]
               /\ Admitted(ip)
    /\ UNCHANGED <<now, rlCfg, notR>>

\* One round of cleanupVisitors, under mu.
CleanupVisitors ==
    /\ visitors' = [ip \in ClientIPs |->
                       IF visitors[ip] # NoVisitor /\ now - visitors[ip].lastSeen > SweepIdle
                       THEN NoVisitor
                       ELSE visitors[ip]]
    /\ UNCHANGED <<now, rlCfg, rlWindow, rlLast, notR>>

TickR ==
    /\ now < MaxTimeR
    /\ now' = now + 1
    /\ UNCHANGED <<rvars, notR>>

InitR ==
    /\ rlCfg \in RateLimitConfigs
    /\ visitors = [ip \in ClientIPs |-> NoVisitor]
    /\ rlWindow = [ip \in ClientIPs |-> NoWindow]
    /\ rlLast = [none |-> TRUE]

NextR ==
    \/ \E ip \in ClientIPs : RateLimiter(ip)
    \/ CleanupVisitors
    \/ TickR

(***************************************************************************)
(* The 5-day forecast: GetForecast of the Go service and                    *)
(* getWeatherForecast of the serverless functions, on the path of a cache   *)
(* miss.  Instants (dt, the clock) are whole hours since a midnight UTC;    *)
(* both runtimes keep their local zone at UTC.  Temperatures are tenths of  *)
(* a degree.  A sample's weather description stands for everything that is  *)
(* copied from one sample (description, icon, humidity, wind, pressure).    *)
(***************************************************************************)
MaxSamples == 7

NoForecast == [none |-> TRUE]

\* main.temp of the i-th sample of a response
ForecastTemps == <<204, 226, 215, 198, 231, 207, 219, 222>>

\* The requests' clock readings, the hours between two samples, the difference
\* temp_max - temp = temp - temp_min, and city.timezone in hours.
ForecastClocks == {50, 68}

ForecastSteps == {3, 24}

ForecastSpreads == {0, 25}

Timezones == {-8, 0, 10}

ForecastItem(first, step, spread, i) ==
    LET temp == ForecastTemps[((i - 1) % Len(ForecastTemps)) + 1]
    IN [dt |-> first + (i - 1) * step,
        temp |-> temp,
        temp_min |-> temp - spread,
        temp_max |-> temp + spread,
        weather |-> i]

\* The provider's answer to /forecast: the list, oldest sample first.
ForecastResponse(first, step, spread, n, tz) ==
    [timezone |-> tz,
     list |-> [i \in 1..n |-> ForecastItem(first, step, spread, i)]]

\* The list built when no API key is configured: noon of today and of the
\* four days after it, at city.timezone -28800 s.
MockForecast(clock) ==
    [timezone |-> -8,
     list |-> [k \in 1..5 |->
                  [dt |-> (clock \div 24) * 24 + 12 + 24 * (k - 1),
                   temp |-> 220 + 20 * (k - 1),
                   temp_min |-> 180 + 20 * (k - 1),
                   temp_max |-> 250 + 20 * (k - 1),
                   weather |-> k]]]

MaxOf(S) == CHOOSE x \in S : \A y \in S : y <= x

MinOf(S) == CHOOSE x \in S : \A y \in S : x <= y

\* time.Unix(dt, 0).Format("2006-01-02"), and the day of new Date() after
\* setHours(0, 0, 0, 0): the calendar day in the runtime's zone.
RuntimeDate(dt) == dt \div 24

\* new Date(dt * 1000).getHours()
RuntimeHour(dt) == dt % 24

\* The calendar day and the hour of an instant at the forecast's place.
ProviderDate(dt, tz) == (dt + tz) \div 24

ProviderHour(dt, tz) == (dt + tz) % 24

\* ---- Go: weatherService.GetForecast
\* dayMap[d] after the loop over apiResp.List; items is the set of samples
\* that went into the day (not a field of ForecastDay).
GoForecastDay(list, d) ==
    LET items == {i \in DOMAIN list : RuntimeDate(list[i].dt) = d}
        first == MinOf(items)
    IN [date |-> d,
        highTemp |-> MaxOf({list[i].temp_max : i \in items}),
        lowTemp |-> MinOf({list[i].temp_min : i \in items}),
        condition |-> list[first].weather,
        items |-> items]

GoDayMap(list) ==
    {GoForecastDay(list, d) : d \in {RuntimeDate(list[i].dt) : i \in DOMAIN list}}

\* The loop over dayMap without its break.
GoDaysNoBreak(dayMap) == {dayMap}

\* The slices the loop over dayMap can build: the map is walked in any order
\* and the loop breaks at five days.
GoDays(dayMap) ==
    {days \in SUBSET dayMap :
        Cardinality(days) = IF Cardinality(dayMap) < 5 THEN Cardinality(dayMap) ELSE 5}

\* The orders in which the loop can have appended the days it took: range
\* over a map walks it in no fixed order.
GoOrders(days) ==
    {order \in [1..Cardinality(days) -> {day.date : day \in days}] :
        \A i, j \in DOMAIN order : i # j => order[i] # order[j]}

\* ---- serverless: getWeatherForecast
\* Math.round, on tenths
MathRound(x) == ((x + 5) \div 10) * 10

\* Object.keys(dailyData): the local days in the order of their first sample.
RECURSIVE DailyKeys(_, _)
DailyKeys(list, tz) ==
    IF list = <<>>
    THEN <<>>
    ELSE LET rest == DailyKeys(SubSeq(list, 1, Len(list) - 1), tz)
             d == ProviderDate(list[Len(list)].dt, tz)
         IN IF \E j \in DOMAIN rest : rest[j] = d THEN rest ELSE Append(rest, d)

\* .filter(dateStr => new Date(dateStr) >= today)
NotPast(keys, clock) == SelectSeq(keys, LAMBDA d : d >= RuntimeDate(clock))

\* The day keys without .slice(0, 5).
SliceAll(keys) == keys

\* .slice(0, 5)
Slice5(keys) == SubSeq(keys, 1, IF Len(keys) < 5 THEN Len(keys) ELSE 5)

\* The callback of .map, for the key d.
TsForecastDay(list, tz, d) ==
    LET items == {i \in DOMAIN list : ProviderDate(list[i].dt, tz) = d}
        midday == {i \in items : RuntimeHour(list[i].dt) >= 10 /\ RuntimeHour(list[i].dt) <= 14}
        middle == CHOOSE i \in items :
                      Cardinality({j \in items : j < i}) = Cardinality(items) \div 2
        middayData == IF midday # {} THEN MinOf(midday) ELSE middle
    IN [date |-> ProviderDate(list[middayData].dt, tz),
        highTemp |-> MathRound(MaxOf({list[i].temp : i \in items})),
        lowTemp |-> MathRound(MinOf({list[i].temp : i \in items})),
        condition |-> list[middayData].weather,
        items |-> items]

TsForecastDays(resp, clock) ==
    LET keys == Slice5(NotPast(DailyKeys(resp.list, resp.timezone), clock))
    IN [k \in DOMAIN keys |-> TsForecastDay(resp.list, resp.timezone, keys[k])]

\* ---- the requests
ForecastResponses ==
    {ForecastResponse(clock + early, step, spread, n, tz) :
        clock \in ForecastClocks, early \in {-3, 1}, step \in ForecastSteps,
        spread \in ForecastSpreads, n \in 0..MaxSamples, tz \in Timezones}

ProviderFailures == {[failure |-> "network error"], [failure |-> "non-2xx"]}

Failed(answer) == "failure" \in DOMAIN answer

\* A forecast is asked for at some hour, and the provider has its answer;
\* one of the two handlers answers the request.
ForecastAsked(clock, answer) ==
    /\ fcIn = NoForecast
    /\ fcIn' = [clock |-> clock, answer |-> answer, answered |-> FALSE]
    /\ UNCHANGED <<now, fcOut, notF>>

\* GetForecast, from the provider call on.
GetForecast ==
    /\ fcIn # NoForecast
    /\ ~fcIn.answered
    /\ fcIn' = [fcIn EXCEPT !.answered = TRUE]
    /\ IF Failed(fcIn.answer)
       THEN fcOut' = [by |-> "GetForecast", calls |-> 1,
                      err |-> IF fcIn.answer.failure = "non-2xx"
                              THEN <<"forecast API error: ", "body">>
                              ELSE <<"failed to fetch forecast: ", "err">>]
       ELSE \E days \in GoDays(GoDayMap(fcIn.answer.list)) :
              \E order \in GoOrders(days) :
                fcOut' = [by |-> "GetForecast", calls |-> 1, resp |-> fcIn.answer,
                          days |-> days, order |-> order]
    /\ UNCHANGED <<now, notF>>

\* getWeatherForecast, from the API key on.  days is the set of the days
\* answered and order their dates as the answer lists them, as for GetForecast.
getWeatherForecast(apiKey) ==
    /\ fcIn # NoForecast
    /\ ~fcIn.answered
    /\ fcIn' = [fcIn EXCEPT !.answered = TRUE]
    /\ IF apiKey /\ Failed(fcIn.answer)
       THEN fcOut' = [by |-> "getWeatherForecast", calls |-> 1,
                      err |-> <<"Failed to fetch weather forecast: ", "message">>]
       ELSE LET data == IF apiKey THEN fcIn.answer ELSE MockForecast(fcIn.clock)
                days == TsForecastDays(data, fcIn.clock)
            IN fcOut' = [by |-> "getWeatherForecast", calls |-> IF apiKey THEN 1 ELSE 0,
                         resp |-> data, days |-> {days[k] : k \in DOMAIN days},
                         order |-> [k \in DOMAIN days |-> days[k].date]]
    /\ UNCHANGED <<now, notF>>

InitF ==
    /\ fcIn = NoForecast
    /\ fcOut = NoForecast

NextF ==
    \/ \E clock \in ForecastClocks, answer \in ForecastResponses \cup ProviderFailures :
           ForecastAsked(clock, answer)
    \/ GetForecast
    \/ \E apiKey \in BOOLEAN : getWeatherForecast(apiKey)

(***************************************************************************)
(* The wind direction: degToDirection of the Go service, getWindDirection   *)
(* of the serverless functions.  Degrees are tenths of a degree.            *)
(***************************************************************************)
NoWind == [none |-> TRUE]

\* wind.deg as the provider may send it: every 2.5 degrees from 0 to 360
WindDegrees == {25 * k : k \in 0..144}

\* directions, calendar.go 503
GoDirections == <<"N", "NE", "E", "SE", "S", "SW", "W", "NW">>

\* directions, part_018 202
TsDirections == <<"N", "NNE", "NE", "ENE", "E", "ESE", "SE", "SSE",
                  "S", "SSW", "SW", "WSW", "W", "WNW", "NW", "NNW">>

\* int((float64(deg) + 22.5) / 45.0) % 8
degToDirection(deg) == GoDirections[(((deg + 225) \div 450) % 8) + 1]

\* Math.round(degrees / 22.5) % 16
getWindDirection(degrees) == TsDirections[(((2 * degrees + 225) \div 450) % 16) + 1]

\* The provider reports a wind.
WindReported(deg) ==
    /\ wind = NoWind
    /\ wind' = [deg |-> deg]
    /\ UNCHANGED <<now, notD>>

\* WindDirection of GetCurrentWeather and of GetForecast; wind.deg is decoded
\* into an int.
GoWindDirection ==
    /\ wind # NoWind
    /\ wind.deg % 10 = 0
    /\ wind' = [deg |-> wind.deg, by |-> "degToDirection",
                windDirection |-> degToDirection(wind.deg)]
    /\ UNCHANGED <<now, notD>>

\* windDirection of getCurrentWeather
TsCurrentWindDirection ==
    /\ wind # NoWind
    /\ wind' = [deg |-> wind.deg, by |-> "getCurrentWeather",
                windDirection |-> IF wind.deg # 0 THEN getWindDirection(wind.deg) ELSE "N/A"]
    /\ UNCHANGED <<now, notD>>

\* windDirection of a day of getWeatherForecast
TsForecastWindDirection ==
    /\ wind # NoWind
    /\ wind' = [deg |-> wind.deg, by |-> "getWeatherForecast",
                windDirection |-> getWindDirection(wind.deg)]
    /\ UNCHANGED <<now, notD>>

InitD == wind = NoWind

NextD ==
    \/ \E deg \in WindDegrees : WindReported(deg)
    \/ GoWindDirection
    \/ TsCurrentWindDirection
    \/ TsForecastWindDirection

(***************************************************************************)
(* The pressure of the current weather.  The provider's main.pressure is in *)
(* tenths of a hectopascal, the pressure returned in hundredths of its unit.*)
(***************************************************************************)
NoPressure == [none |-> TRUE]

\* main.pressure: the whole hectopascals from 950 to 1050, and 1013.4
Pressures == {10 * h : h \in 950..1050} \cup {10134}

Units == {"metric", "imperial", "standard"}

\* Math.round((pressureInHPa * 0.02953) * 100) / 100
Inches(pressureInHPa) == (2 * pressureInHPa * 2953 + 10000) \div 20000

\* Math.round(pressureInHPa)
WholeHPa(pressureInHPa) == ((pressureInHPa + 5) \div 10) * 100

\* part_018 282-285
convertedPressure(pressureInHPa, units) ==
    IF units = "imperial" THEN Inches(pressureInHPa) ELSE WholeHPa(pressureInHPa)

\* The provider reports a pressure to a request made with some units.
PressureReported(hPa, units) ==
    /\ baro = NoPressure
    /\ baro' = [hPa |-> hPa, units |-> units]
    /\ UNCHANGED <<now, notP>>

\* Pressure of GetCurrentWeather: apiResp.Main.Pressure as it came.
GoPressure ==
    /\ baro # NoPressure
    /\ baro' = [hPa |-> baro.hPa, units |-> baro.units, by |-> "GetCurrentWeather",
                pressure |-> baro.hPa * 10]
    /\ UNCHANGED <<now, notP>>

\* pressure of getCurrentWeather
TsPressure ==
    /\ baro # NoPressure
    /\ baro' = [hPa |-> baro.hPa, units |-> baro.units, by |-> "getCurrentWeather",
                pressure |-> convertedPressure(baro.hPa, baro.units)]
    /\ UNCHANGED <<now, notP>>

InitP == baro = NoPressure

NextP ==
    \/ \E hPa \in Pressures, units \in Units : PressureReported(hPa, units)
    \/ GoPressure
    \/ TsPressure

(***************************************************************************)
(* The cache keys of two weather requests.  Coordinates are in 1e-4 degree. *)
(***************************************************************************)
NoKeys == [none |-> TRUE]

Latitudes == {-12344, 12342, 12344, 12346}

Longitudes == {56789, 56791}

KeyUnits == {"metric", "imperial"}

KeyArgs == Latitudes \X Longitudes \X KeyUnits

\* cacheKey := fmt.Sprintf("weather:forecast:%f:%f:%s", lat, lon, units)
ForecastCacheKey(args) == <<"weather:forecast", FormatF(args[1]), FormatF(args[2]), args[3]>>

\* Two requests of one kind arrive.
TwoRequests(a, b) ==
    /\ ckeys = NoKeys
    /\ ckeys' = [a |-> a, b |-> b]
    /\ UNCHANGED <<now, notY>>

Keyed(by, keyA, keyB) ==
    [a |-> ckeys.a, b |-> ckeys.b, by |-> by, keyA |-> keyA, keyB |-> keyB]

\* The keys GetCurrentWeather and GetForecast read and write Redis under.
GoCurrentKeys ==
    /\ ckeys # NoKeys
    /\ ckeys' = Keyed("GetCurrentWeather",
                      CurrentCacheKey(ckeys.a), CurrentCacheKey(ckeys.b))
    /\ UNCHANGED <<now, notY>>

GoForecastKeys ==
    /\ ckeys # NoKeys
    /\ ckeys' = Keyed("GetForecast",
                      ForecastCacheKey(ckeys.a), ForecastCacheKey(ckeys.b))
    /\ UNCHANGED <<now, notY>>

\* The keys getCurrentWeather and getWeatherForecast pass to the cache.
TsCurrentKeys ==
    /\ ckeys # NoKeys
    /\ ckeys' = Keyed("getCurrentWeather",
                      getCacheKey("current", ckeys.a[1], ckeys.a[2], ckeys.a[3]),
                      getCacheKey("current", ckeys.b[1], ckeys.b[2], ckeys.b[3]))
    /\ UNCHANGED <<now, notY>>

TsForecastKeys ==
    /\ ckeys # NoKeys
    /\ ckeys' = Keyed("getWeatherForecast",
                      getCacheKey("forecast", ckeys.a[1], ckeys.a[2], ckeys.a[3]),
                      getCacheKey("forecast", ckeys.b[1], ckeys.b[2], ckeys.b[3]))
    /\ UNCHANGED <<now, notY>>

InitY == ckeys = NoKeys

NextY ==
    \/ \E a \in KeyArgs, b \in KeyArgs : TwoRequests(a, b)
    \/ GoCurrentKeys
    \/ GoForecastKeys
    \/ TsCurrentKeys
    \/ TsForecastKeys

(***************************************************************************)
(* serverless: getDetailedLocation over the two-tier cache.                 *)
(***************************************************************************)
NoLookup == [none |-> TRUE]

MaxTimeL == 80

LocationTicks == {20, 40}

\* Two places that share the location key of TsKeys.
LocationArgs == {<<12342, 56789>>, <<12344, 56789>>}

\* what the reverse geocoding call can come to
GeocodeOutcomes == {"found", "empty", "error"}

\* x.toFixed(2), in hundredths of a degree
ToFixed2(x) == (x + 50) \div 100

\* parts.join(", ") of the first geocoding result
GeocodedLocation == [name |-> "Springfield", country |-> "US"]

\* `Lat: ${latitude.toFixed(2)}, Lon: ${longitude.toFixed(2)}`
FallbackLocation(latitude, longitude) ==
    [Lat |-> ToFixed2(latitude), Lon |-> ToFixed2(longitude)]

\* The fallback returned without the setCachedWeatherData call.
FallbackNotCached(k, data, writeOk) == UNCHANGED <<weatherCache, fsCache>>

\* setCachedWeatherData(locationCacheKey, data, CACHE_TTL.LOCATION)
CacheLocation(k, data, writeOk) ==
    /\ weatherCache' = [weatherCache EXCEPT ![k] =
           [data |-> data, timestamp |-> now, ttl |-> CACHE_TTL_LOCATION]]
    /\ fsCache' = IF writeOk
                  THEN [fsCache EXCEPT ![k] =
                          [data |-> data, timestamp |-> now,
                           ttl |-> CACHE_TTL_FIRESTORE_CACHE]]
                  ELSE fsCache

CacheFallback(k, data, writeOk) == CacheLocation(k, data, writeOk)

\* getDetailedLocation(latitude, longitude, apiKey): the Firestore read and
\* write may fail, the geocoding call comes to one of GeocodeOutcomes.
getDetailedLocation(args, readOk, geocode, writeOk) ==
    /\ cget = NoCall
    /\ LET k == getLocationCacheKey(args[1], args[2])
           memoryCache == weatherCache[k]
           cacheData == fsCache[k]
           Looked(location, tier) ==
               [args |-> args, at |-> now, location |-> location, tier |-> tier]
       IN IF memoryCache # NoEntry /\ isCacheValid(memoryCache.timestamp, memoryCache.ttl)
          THEN /\ loc' = Looked(memoryCache.data, "memory")
               /\ UNCHANGED <<weatherCache, fsCache>>
          ELSE IF readOk /\ cacheData # NoEntry
                  /\ isCacheValid(cacheData.timestamp, CACHE_TTL_LOCATION)
          THEN /\ weatherCache' = [weatherCache EXCEPT ![k] =
                      [data |-> cacheData.data, timestamp |-> cacheData.timestamp,
                       ttl |-> CACHE_TTL_LOCATION]]
               /\ loc' = Looked(cacheData.data, "firestore")
               /\ UNCHANGED fsCache
          ELSE IF geocode = "found"
          THEN /\ CacheLocation(k, GeocodedLocation, writeOk)
               /\ loc' = Looked(GeocodedLocation, "geocoded")
          ELSE /\ CacheFallback(k, FallbackLocation(args[1], args[2]), writeOk)
               /\ loc' = Looked(FallbackLocation(args[1], args[2]), "fallback")
    /\ UNCHANGED <<now, cget, served, notL>>

\* Time passes between two lookups, a third or two thirds of an hour.
TickL(d) ==
    /\ now + d <= MaxTimeL
    /\ now' = now + d
    /\ UNCHANGED <<cvars, lvars, notL>>

InitL == loc = NoLookup

NextL ==
    \/ \E args \in LocationArgs, readOk \in BOOLEAN, geocode \in GeocodeOutcomes,
          writeOk \in BOOLEAN : getDetailedLocation(args, readOk, geocode, writeOk)
    \/ ColdStart
    \/ \E d \in LocationTicks : TickL(d)

(***************************************************************************)
(* Go service: several identical GetCurrentWeather requests at once.  Each  *)
(* request runs in its own goroutine; the cache lookup, the provider call   *)
(* and the cache write of one request interleave with those of the others.  *)
(***************************************************************************)
MaxRequests == 2

MaxFlightCalls == 3

MaxTimeQ == 2

Requests == 1..MaxRequests

\* The arguments all the requests carry.
FlightArgs == <<12342, 56789, "metric">>

NoFetch == [none |-> TRUE]

\* SET under a key that is written only when it holds no live value.
CacheRepoSetIfAbsent(store, key, value, ttl, ok) ==
    IF RedisLive(store, key) THEN store ELSE CacheRepoSet(store, key, value, ttl, ok)

\* s.cacheRepo.Set(ctx, cacheKey, weatherData, s.cacheTTL)
FlightSet(store, key, value, ttl, ok) == CacheRepoSet(store, key, value, ttl, ok)

\* GetCurrentWeather of request r, up to the provider request; together
\* notes that another request was at the provider when this one went there.
FlightStart(r, getOk) ==
    /\ flight[r].pc # "fetching"
    /\ LET key == CurrentCacheKey(FlightArgs)
       IN IF CacheRepoHit(redisStore, key, getOk)
          THEN /\ flight' = [flight EXCEPT ![r] =
                     [pc |-> "done", calls |-> 0, together |-> FALSE,
                      result |-> redisStore[key].value]]
               /\ UNCHANGED providerCalls
          ELSE /\ providerCalls < MaxFlightCalls
               /\ flight' = [flight EXCEPT ![r] =
                     [pc |-> "fetching", calls |-> 1,
                      together |-> \E q \in Requests \ {r} : flight[q].pc = "fetching"]]
               /\ providerCalls' = providerCalls + 1
    /\ UNCHANGED <<now, redisClient, redisStore, gw, gwLast, lastFetch, notWQ>>

\* The provider fails request r.
FlightProviderError(r) ==
    /\ flight[r].pc = "fetching"
    /\ flight' = [flight EXCEPT ![r] =
           [pc |-> "done", calls |-> flight[r].calls, together |-> flight[r].together,
            result |-> ProviderError]]
    /\ UNCHANGED <<now, redisClient, redisStore, providerCalls, gw, gwLast, lastFetch, notWQ>>

\* The provider answers request r: the response is converted, cached and
\* returned.  lastFetch keeps the latest such return and whether its write
\* reached Redis.
FlightProviderOk(r, obs, setOk) ==
    /\ flight[r].pc = "fetching"
    /\ LET data == [condition |-> obs, timestamp |-> now]
           key == CurrentCacheKey(FlightArgs)
       IN /\ redisStore' = FlightSet(redisStore, key, data, WeatherCacheTTL, setOk)
          /\ flight' = [flight EXCEPT ![r] =
                 [pc |-> "done", calls |-> flight[r].calls,
                  together |-> flight[r].together, result |-> data]]
          /\ lastFetch' = [data |-> data, at |-> now,
                           written |-> redisClient # "nil" /\ setOk]
    /\ UNCHANGED <<now, redisClient, providerCalls, gw, gwLast, notWQ>>

TickQ ==
    /\ now < MaxTimeQ
    /\ now' = now + 1
    /\ UNCHANGED <<wvars, notW>>

InitQ ==
    /\ flight = [r \in Requests |-> [pc |-> "idle", calls |-> 0, together |-> FALSE]]
    /\ lastFetch = NoFetch

NextQ ==
    \/ \E r \in Requests, getOk \in BOOLEAN : FlightStart(r, getOk)
    \/ \E r \in Requests : FlightProviderError(r)
    \/ \E r \in Requests, obs \in Observations, setOk \in BOOLEAN : FlightProviderOk(r, obs, setOk)
    \/ TickQ

(***************************************************************************)
(* Go service: AuthHandler.RefreshToken and AuthHandler.UpdateUser         *)
(***************************************************************************)
NoAnswer == [op |-> "none", status |-> 0, token |-> NoToken, id |-> 0]

\* What a client can send as "units": nothing, the two documented values and
\* another string.
UnitsSent == {"metric", "imperial", "kelvin"}
UpdateRequests == [set : {FALSE}] \cup [set : {TRUE}, value : UnitsSent]

\* userRepo.GetByID: db.First by primary key; 0 for record not found
GetByIDAny(rows, id) == IF rows = <<>> THEN 0 ELSE 1

GetByID(rows, id) == IF id \in DOMAIN rows THEN id ELSE 0

\* GenerateToken(user) for a row of the table
SessionToken(id, user) ==
    SignedString("HS256", ServerSecret,
                 [user_id |-> id, email |-> user.email,
                  exp |-> now + JWTExpiration, iat |-> now])

\* POST /auth/refresh with the presented token in the body (bound), or with a
\* body that does not bind.
RefreshToken(bound) ==
    /\ jwtToken # NoToken
    /\ LET claims == ValidateToken(jwtToken)
           userID == IF claims.ok THEN GetByID(users, claims.claims.user_id) ELSE 0
       IN authResp' =
            IF ~bound
            THEN [op |-> "refresh", status |-> 400, token |-> NoToken, id |-> 0]
            ELSE IF ~claims.ok
            THEN [op |-> "refresh", status |-> 401, token |-> NoToken, id |-> 0]
            ELSE IF userID = 0
            THEN [op |-> "refresh", status |-> 404, token |-> NoToken, id |-> 0]
            ELSE [op |-> "refresh", status |-> 200,
                  token |-> SessionToken(userID, users[userID]), id |-> userID]
    /\ UNCHANGED <<now, tvars, uvars, notTUA>>

\* The request's fields as if "provider" were one of them.
CopyFieldsAndProvider(user, req) ==
    IF req.set THEN [user EXCEPT !.units = req.value, !.provider = req.value] ELSE user

\* The fields UpdateUser copies from the request onto the row it read:
\* display name, timezone, units and notifications, each when present.
CopyFields(user, req) ==
    IF req.set THEN [user EXCEPT !.units = req.value] ELSE user

\* PUT /user/me for the authenticated user id: the row is read, the fields
\* present in the request are copied onto it, and db.Save writes it back.
UpdateUser(id, req, saveOk) ==
    /\ LET userID == GetByID(users, id)
       IN IF userID = 0
          THEN /\ authResp' = [op |-> "update", status |-> 404, token |-> NoToken, id |-> id]
               /\ UNCHANGED users
          ELSE LET user == CopyFields(users[userID], req)
               IN IF saveOk
                  THEN /\ users' = [users EXCEPT ![userID] = user]
                       /\ authResp' = [op |-> "update", status |-> 200,
                                       token |-> NoToken, id |-> id]
                  ELSE /\ authResp' = [op |-> "update", status |-> 500,
                                       token |-> NoToken, id |-> id]
                       /\ UNCHANGED users
    /\ UNCHANGED <<now, logins, loginHist, tvars, notTUA>>

\* GET /auth/google/callback once Google has answered with the user's
\* info: CreateOrUpdateUser, then GenerateToken for the user it returns.
GoogleCallback(args) ==
    /\ LET id == GetByProviderID(users, args.providerID)
           user == IF id # 0
                   THEN [users[id] EXCEPT !.email = args.email, !.lastLogin = now]
                   ELSE [email |-> args.email, provider |-> args.provider,
                         providerID |-> args.providerID, units |-> "imperial",
                         lastLogin |-> now]
       IN IF \/ EmailTaken(users, user.email, id)
             \/ ProviderIDTaken(users, user.providerID, id)
          THEN /\ authResp' = [op |-> "login", status |-> 500, token |-> NoToken, id |-> 0]
               /\ UNCHANGED <<users, tvars>>
          ELSE /\ users' = IF id # 0 THEN [users EXCEPT ![id] = user]
                                     ELSE Append(users, user)
               /\ LET newID == IF id # 0 THEN id ELSE Len(users')
                  IN /\ jwtToken' = SessionToken(newID, user)
                     /\ authResp' = [op |-> "login", status |-> 200,
                                     token |-> jwtToken', id |-> newID]
               /\ jwtVerdict' = NoVerdict
    /\ UNCHANGED <<now, logins, loginHist, notTUA>>

TickA ==
    /\ now < MaxTimeA
    /\ now' = now + 1
    /\ UNCHANGED <<tvars, uvars, avars, notTUA>>

InitA == authResp = NoAnswer

\* Sessions: logins, tokens presented (issued, or altered by their holder)
\* and refreshes.  A token can outlive its user's row.
NextA ==
    \/ \E args \in LoginArgs : GoogleCallback(args)
    \/ \E id \in UserIDs : GenerateToken(id)
    \/ \E id \in UserIDs, later \in {0, 1} : TamperClaims(id, later)
    \/ \E bound \in BOOLEAN : RefreshToken(bound)
    \/ TickA

\* Profiles: a login and profile updates, in any interleaving.
NextB ==
    \/ \E args \in LoginArgs : LoginLookup(1, args)
    \/ LoginWrite(1)
    \/ \E id \in UserIDs, req \in UpdateRequests, saveOk \in BOOLEAN :
          UpdateUser(id, req, saveOk)

(***************************************************************************)
(* Coordinates of a weather request: the checks of the Go handlers         *)
(* (c.Query, strconv.ParseFloat) and of the serverless getCurrentWeather   *)
(* and getWeatherForecast.  Degrees are whole degrees.                     *)
(***************************************************************************)
NoCoord == [none |-> TRUE]

\* A coordinate as it arrives: not given, given but no number ("abc" in the
\* query string, NaN in the request object), or a number.
Missing == [kind |-> "missing"]
Malformed == [kind |-> "malformed"]
Degrees(n) == [kind |-> "number", value |-> n]
LatitudesSent == {Missing, Malformed} \cup {Degrees(n) : n \in {-90, 0, 45, 90}}
LongitudesSent == {Missing, Malformed} \cup {Degrees(n) : n \in {-180, 0, 100, 180}}
WeatherOps == {"current", "forecast"}

\* latStr == "" || lonStr == ""
GoEmpty(param) == param = Missing

\* strconv.ParseFloat(str, 64) returns an error
GoParseFails(param) == param = Malformed

\* !latitude in JavaScript: undefined, NaN and 0 are falsy
TsFalsy(param) == param \in {Missing, Malformed, Degrees(0)}

\* What a checked request leaves: the answer of the check, and whether the
\* call went on to the cache and the provider.
Checked(by, op, lat, lon, status, error, provider) ==
    [by |-> by, op |-> op, lat |-> lat, lon |-> lon, status |-> status,
     error |-> error, provider |-> provider]

\* WeatherHandler.GetCurrentWeather and WeatherHandler.GetForecast, up to the
\* call of the service; cached tells whether the service finds the answer in
\* its cache.
GoWeatherHandler(op, lat, lon, cached) ==
    /\ coord' =
         IF GoEmpty(lat) \/ GoEmpty(lon)
         THEN Checked("go", op, lat, lon, 400, "lat and lon parameters required", FALSE)
         ELSE IF GoParseFails(lat)
         THEN Checked("go", op, lat, lon, 400, "Invalid latitude", FALSE)
         ELSE IF GoParseFails(lon)
         THEN Checked("go", op, lat, lon, 400, "Invalid longitude", FALSE)
         ELSE Checked("go", op, lat, lon, 200, "", ~cached)
    /\ UNCHANGED <<now, notV>>

\* getCurrentWeather(request) and getWeatherForecast(request), up to the
\* provider call.
TsWeatherRequest(op, lat, lon, cached) ==
    /\ coord' =
         IF TsFalsy(lat) \/ TsFalsy(lon)
         THEN Checked("ts", op, lat, lon, 500, "Latitude and longitude are required", FALSE)
         ELSE Checked("ts", op, lat, lon, 200, "", ~cached)
    /\ UNCHANGED <<now, notV>>

InitV == coord = NoCoord

NextV ==
    \/ \E op \in WeatherOps, lat \in LatitudesSent, lon \in LongitudesSent,
          cached \in BOOLEAN : GoWeatherHandler(op, lat, lon, cached)
    \/ \E op \in WeatherOps, lat \in LatitudesSent, lon \in LongitudesSent,
          cached \in BOOLEAN : TsWeatherRequest(op, lat, lon, cached)

Init ==
    /\ now = 0
    /\ InitW
    /\ InitC
    /\ InitT
    /\ InitK
    /\ InitU
    /\ InitR
    /\ InitF
    /\ InitD
    /\ InitP
    /\ InitY
    /\ InitL
    /\ InitQ
    /\ InitA
    /\ InitV

NextW ==
    \/ \E a \in WeatherArgs, ok \in BOOLEAN : GwStart(a, ok)
    \/ GwProviderError
    \/ \E o \in Observations, ok \in BOOLEAN : GwProviderOk(o, ok)
    \/ TickW

\* The weather runs: with and without a Redis client.
InitWeather ==
    /\ Init
    /\ rlCfg = DefaultRateLimit

SpecW == InitWeather /\ [][NextW]_vars

\* The serverless functions do not use the Go service's Redis client.
InitTs ==
    /\ Init
    /\ redisClient = "nil"
    /\ rlCfg = DefaultRateLimit

SpecC == InitTs /\ [][NextC]_vars

\* The runs of the Go service that do not look at the weather cache.
InitGo ==
    /\ Init
    /\ redisClient = "connected"
    /\ rlCfg = DefaultRateLimit

\* The runs of the rate limiter, under each configuration.
InitLimiter ==
    /\ Init
    /\ redisClient = "connected"

SpecT == InitGo /\ [][NextT]_vars

SpecK == InitGo /\ [][NextK]_vars

SpecH == InitTs /\ [][NextH]_vars

SpecUSeq == InitGo /\ [][NextUSeq]_vars

SpecU == InitGo /\ [][NextU]_vars

SpecR == InitLimiter /\ [][NextR]_vars

SpecF == InitGo /\ [][NextF]_vars

SpecD == InitGo /\ [][NextD]_vars

SpecP == InitGo /\ [][NextP]_vars

SpecY == InitGo /\ [][NextY]_vars

SpecL == InitTs /\ [][NextL]_vars

SpecQ == InitWeather /\ [][NextQ]_vars

SpecA == InitGo /\ [][NextA]_vars

SpecB == InitGo /\ [][NextB]_vars

SpecV == InitGo /\ [][NextV]_vars

(***************************************************************************)
(* C1                                                                      *)
(***************************************************************************)
\* A step in which a call starts and goes on to the provider / is answered
\* from the cache.
StartsMiss == gw = NoCall /\ gw' # NoCall
StartsHit(a) == gw = NoCall /\ gw' = NoCall /\ gwLast'[a] # gwLast[a]

\* A call with arguments a is the second of two: the first one fetched the
\* weather from the provider and returned it less than the TTL ago.
Repeat(a) ==
    /\ gwLast[a] # NoCall
    /\ gwLast[a].calls = 1
    /\ gwLast[a].result # ProviderError
    /\ now - gwLast[a].end < WeatherCacheTTL

Hit(r) == r # NoResponse /\ r.tier \in {"memory", "firestore"}

Judged == jwtVerdict # NoVerdict

\* C3: ValidateToken rejects a token whose expiry has passed even when its
\* signature is a valid one made with the server secret; it accepts a token
\* with a future expiry and a correct signature made with the server secret
\* and returns its claims; and it rejects every token whose claims or header
\* were changed after signing.
C3_ValidateToken ==
    Judged =>
        /\ (jwtToken.sig.key = ServerSecret /\ now >= jwtToken.claims.exp)
               => ~jwtVerdict.ok
        /\ ( /\ jwtToken.sig = Sign("HS256", ServerSecret, jwtToken.claims)
             /\ jwtToken.alg = "HS256"
             /\ now < jwtToken.claims.exp )
               => jwtVerdict.ok /\ jwtVerdict.claims = jwtToken.claims
        /\ (jwtToken.sig.claims # jwtToken.claims \/ jwtToken.sig.alg # jwtToken.alg)
               => ~jwtVerdict.ok

\* An issued token is accepted before its expiry ...
C3_Witness ==
    /\ Judged
    /\ jwtVerdict.ok
    /\ now > jwtToken.claims.iat

\* ... an untouched one is rejected at its expiry ...
C3_WitnessExpired ==
    /\ Judged
    /\ ~jwtVerdict.ok
    /\ jwtToken.sig = Sign("HS256", ServerSecret, jwtToken.claims)
    /\ jwtToken.alg = "HS256"
    /\ now = jwtToken.claims.exp

\* ... and one whose expiry was pushed back is rejected while the new expiry
\* is still ahead.
C3_WitnessTampered ==
    /\ Judged
    /\ ~jwtVerdict.ok
    /\ jwtToken.sig.key = ServerSecret
    /\ jwtToken.sig.claims # jwtToken.claims
    /\ now < jwtToken.claims.exp

(***************************************************************************)
(* C4                                                                      *)
(***************************************************************************)
Answered == httpResp # [none |-> TRUE]

\* C4: a request to a protected operation (weather, calendar,
\* recommendations) whose Authorization header is missing or carries no
\* valid bearer token is answered 401 once it is past the origin check and is
\* no preflight, and in no case is it given weather, calendar or
\* recommendation data.
C4_Unauthenticated401 ==
    (Answered /\ ~verifyIdToken(httpResp.req.authorization)) =>
        /\ httpResp.data = "none"
        /\ (~CorsRejects(httpResp.req) /\ ~Preflight(httpResp.req))
               => httpResp.status = 401

(***************************************************************************)
(* C7                                                                      *)
(***************************************************************************)
ListOps == {"GetCalendarEvents", "getCalendarEventsWithAuth", "getCalendarEvents"}
NotConnectedErrors ==
    {"no calendar token found", "No calendar access token found", "User not found"}

\* C7: listing the calendar events of a user with no stored calendar token
\* fails with a not-connected error, calls the calendar provider not at all,
\* and returns no events.
C7_NotConnected ==
    (calOp # NoOp /\ calOp.op \in ListOps /\ calOp.user \in UserIDs /\ ~calOp.had) =>
        /\ calOp.err \in NotConnectedErrors
        /\ ~calOp.provider
        /\ calOp.events = "none"

(***************************************************************************)
(* C8                                                                      *)
(***************************************************************************)
\* C8: after any sequence of SaveToken and DisconnectCalendar calls each user
\* has at most one stored calendar token, and right after a successful
\* SaveToken(userId, token) the one token stored for userId is the token
\* just saved.
C8_OneTokenPerUser ==
    /\ \A u \in UserIDs : Cardinality(LiveTokenIds(calendarTokens, u)) <= 1
    /\ (calOp # NoOp /\ calOp.op = "SaveToken" /\ calOp.err = "nil") =>
           /\ HasLiveToken(calendarTokens, calOp.user)
           /\ \A i \in LiveTokenIds(calendarTokens, calOp.user) :
                  calendarTokens[i].accessToken = calOp.token

\* A SaveToken has replaced a user's token while another user's token is
\* disconnected.
C8_Witness ==
    /\ calOp # NoOp
    /\ calOp.op = "SaveToken"
    /\ calOp.err = "nil"
    /\ calOp.had
    /\ \E i \in DOMAIN calendarTokens : calendarTokens[i].deleted

(***************************************************************************)
(* C9                                                                      *)
(***************************************************************************)
Stores == <<calendarTokens, userDocs>>

\* C9: disconnecting is idempotent: for a user with no stored token it
\* returns no error and leaves the store as it was, and a second disconnect
\* right after a successful one leaves the store as it was and succeeds too.
C9_DisconnectIdempotent ==
    [][ \A u \in UserIDs :
          /\ (DisconnectCalendar(u) /\ ~HasLiveToken(calendarTokens, u)) =>
                 calOp'.err = "nil" /\ Stores' = Stores
          /\ (clearCalendarTokens(u) /\ ~HasGoogleToken(userDocs, u)) =>
                 calOp'.err = "nil" /\ Stores' = Stores
          /\ ( /\ DisconnectCalendar(u) \/ clearCalendarTokens(u)
               /\ calOp # NoOp
               /\ calOp.op = calOp'.op
               /\ calOp.user = u
               /\ calOp.err = "nil" ) =>
                 calOp'.err = "nil" /\ Stores' = Stores ]_vars

(***************************************************************************)
(* C5                                                                      *)
(***************************************************************************)
\* The last two calls that returned had the same provider id, and the first
\* of them returned a user.
SecondOfTwo ==
    /\ loginHist[1] # NoLogin
    /\ loginHist[1].ok
    /\ loginHist[2].args.providerID = loginHist[1].args.providerID

C6_UniqueProviderID ==
    \A i, j \in DOMAIN users :
        (users[i].provider = users[j].provider /\ users[i].providerID = users[j].providerID)
            => i = j

\* Two logins with one provider id found no row, both went on to create
\* one, and the second was turned away.
C6_Witness ==
    /\ loginHist[1] # NoLogin
    /\ loginHist[1].ok
    /\ ~loginHist[2].ok
    /\ loginHist[2].args.providerID = loginHist[1].args.providerID
    /\ loginHist[2].args.email # loginHist[1].args.email
    /\ Len(users) = 1
    /\ \A p \in LoginProcs : logins[p] = Idle

(***************************************************************************)
(* C10                                                                     *)
(***************************************************************************)
\* C10: for each client IP, whatever the interleaving of requests and
\* sweeps, the limiter admits at most cfg.Requests requests in one window
\* (from the request that opens it until the window duration has elapsed),
\* and a request it answers 429 does not reach the next handler.
C10_AtMostMaxPerWindow ==
    /\ \A ip \in ClientIPs :
          rlWindow[ip] # NoWindow => rlWindow[ip].admitted <= rlCfg.Requests
    /\ (rlLast # [none |-> TRUE] /\ rlLast.status = 429) => ~rlLast.next

(***************************************************************************)
(* C11                                                                     *)
(***************************************************************************)
\* C11: under every configured window duration, a sweep removes an entry
\* exactly when its client has been idle (here, generously: since the entry's
\* lastSeen) for longer than 5 times the window duration: no entry is
\* removed earlier, and none that old survives a sweep.
C11_SweepAtFiveWindows ==
    [][ CleanupVisitors =>
          \A ip \in ClientIPs :
              visitors[ip] # NoVisitor =>
                  (visitors'[ip] = NoVisitor
                      <=> now - visitors[ip].lastSeen > 5 * rlCfg.Duration) ]_vars

(***************************************************************************)
(* C12                                                                     *)
(***************************************************************************)
Answered5Day == "days" \in DOMAIN fcOut

\* The days a response falls into, as the handler that answered groups them.
DaysGrouped ==
    IF fcOut.by = "GetForecast"
    THEN Cardinality(GoDayMap(fcOut.resp.list))
    ELSE Len(DailyKeys(fcOut.resp.list, fcOut.resp.timezone))

\* C12: a forecast, from GetForecast or from getWeatherForecast, never holds
\* more than five ForecastDay entries.
C12_AtMostFiveDays ==
    Answered5Day => Cardinality(fcOut.days) <= 5

\* The provider's samples fall on more than five days and GetForecast
\* answers with five of them.
C12_Witness ==
    /\ Answered5Day
    /\ fcOut.by = "GetForecast"
    /\ DaysGrouped > 5
    /\ Cardinality(fcOut.days) = 5

\* The same for getWeatherForecast.
C12_WitnessTs ==
    /\ Answered5Day
    /\ fcOut.by = "getWeatherForecast"
    /\ DaysGrouped > 5
    /\ Cardinality(fcOut.days) = 5

(***************************************************************************)
(* C13                                                                     *)
(***************************************************************************)
\* Today at the forecast's place, at the hour of the request.
ProviderToday == ProviderDate(fcIn.clock, fcOut.resp.timezone)

\* C13: every day of a forecast is dated today or later in the provider's
\* local time, and no sample of a local day before today went into it.
C13_NoPastDays ==
    Answered5Day =>
        \A day \in fcOut.days :
            /\ day.date >= ProviderToday
            /\ \A i \in day.items :
                   ProviderDate(fcOut.resp.list[i].dt, fcOut.resp.timezone) >= ProviderToday

(***************************************************************************)
(* C14                                                                     *)
(***************************************************************************)
\* main.temp of the samples that went into a day
TempsOf(day) == {fcOut.resp.list[i].temp : i \in day.items}

\* C14: the high temperature of a forecast day is the maximum, and the low
\* the minimum, of main.temp over the samples grouped into that day.
C14_HighLowOfTemp ==
    Answered5Day =>
        \A day \in fcOut.days :
            /\ day.highTemp = MaxOf(TempsOf(day))
            /\ day.lowTemp = MinOf(TempsOf(day))

(***************************************************************************)
(* C15                                                                     *)
(***************************************************************************)
\* The sample that stands for a day: the first of its samples whose hour at
\* the forecast's place is between 10 and 14, else the one in the middle.
Representative(day) ==
    LET list == fcOut.resp.list
        tz == fcOut.resp.timezone
        midday == {i \in day.items :
                      ProviderHour(list[i].dt, tz) >= 10 /\ ProviderHour(list[i].dt, tz) <= 14}
    IN IF midday # {}
       THEN MinOf(midday)
       ELSE CHOOSE i \in day.items :
                Cardinality({j \in day.items : j < i}) = Cardinality(day.items) \div 2

\* C15: what a forecast day copies from one sample (condition, icon,
\* humidity, wind, pressure) is copied from the sample whose hour in the
\* provider's local time is between 10 and 14, or else from the middle one.
C15_MiddaySample ==
    Answered5Day =>
        \A day \in fcOut.days :
            day.condition = fcOut.resp.list[Representative(day)].weather

(***************************************************************************)
(* C16                                                                     *)
(***************************************************************************)
Directed == "windDirection" \in DOMAIN wind

\* The entry of the 16-point compass at index round(deg / 22.5) mod 16.
CompassPoint(deg) ==
    LET q == deg \div 225
        index == IF 2 * (deg % 225) >= 225 THEN q + 1 ELSE q
    IN TsDirections[(index % 16) + 1]

\* C16: the wind direction returned for a wind of 0..360 degrees is the
\* entry of the 16-point compass at index round(deg / 22.5) mod 16.
C16_SixteenPointCompass ==
    Directed => wind.windDirection = CompassPoint(wind.deg)

(***************************************************************************)
(* C17                                                                     *)
(***************************************************************************)
Measured == "pressure" \in DOMAIN baro

\* hPa * 0.02953 to two decimals, in hundredths of an inch; hPa in tenths
HPaToInHg(hPa) ==
    LET q == (hPa * 2953) \div 10000
    IN IF 2 * ((hPa * 2953) % 10000) >= 10000 THEN q + 1 ELSE q

\* hPa to the nearest integer, in hundredths
HPaRounded(hPa) == (IF hPa % 10 >= 5 THEN hPa \div 10 + 1 ELSE hPa \div 10) * 100

\* C17: the pressure of the current weather is, under imperial units, the
\* provider's hPa times 0.02953 to two decimals, which for 1013 hPa is
\* within 0.01 of 29.93; under any other units it is the hPa to the nearest
\* integer.
C17_Pressure ==
    Measured =>
        IF baro.units = "imperial"
        THEN /\ baro.pressure = HPaToInHg(baro.hPa)
             /\ baro.hPa = 10130 =>
                    (baro.pressure >= 2993 - 1 /\ baro.pressure <= 2993 + 1)
        ELSE baro.pressure = HPaRounded(baro.hPa)

(***************************************************************************)
(* C18                                                                     *)
(***************************************************************************)
KeysMade == "keyA" \in DOMAIN ckeys

\* A coordinate to three decimals, in 1e-3 degree.
ThreeDecimals(x) == IF x % 10 >= 5 THEN x \div 10 + 1 ELSE x \div 10

SameRounded(a, b) ==
    /\ ThreeDecimals(a[1]) = ThreeDecimals(b[1])
    /\ ThreeDecimals(a[2]) = ThreeDecimals(b[2])
    /\ a[3] = b[3]

\* C18: two requests of one kind use the same cache entry exactly when their
\* latitudes agree to three decimals, their longitudes agree to three
\* decimals and their units are equal.
C18_KeyIsRoundedCoordinates ==
    KeysMade => (ckeys.keyA = ckeys.keyB <=> SameRounded(ckeys.a, ckeys.b))

(***************************************************************************)
(* C19                                                                     *)
(***************************************************************************)
LocationKey == getLocationCacheKey(12342, 56789)

\* The last lookup fell back to the literal label, less than the location
\* TTL ago.
FellBackLately ==
    /\ loc # NoLookup
    /\ loc.tier = "fallback"
    /\ now - loc.at < CACHE_TTL_LOCATION

\* The lookup answers from the cache what the last lookup answered.
SameFromCache ==
    /\ loc'.tier \in {"memory", "firestore"}
    /\ loc'.location = loc.location

IsError(result) == "error" \in DOMAIN result

\* No call, in flight or completed, has gone to the provider more than once.
OneProviderCall ==
    /\ gw # NoCall => gw.calls = 1
    /\ \A a \in WeatherArgs : gwLast[a] # NoCall => gwLast[a].calls <= 1

\* C20: a GetCurrentWeather request calls the provider at most once; when
\* that call fails the request ends in the same step with the provider's
\* error, and no further provider call is made for it.
C20_NoRetry ==
    /\ []OneProviderCall
    /\ [][ GwProviderError =>
             /\ gw' = NoCall
             /\ providerCalls' = providerCalls
             /\ IsError(gwLast'[gw.args].result)
             /\ gwLast'[gw.args].calls = 1
             /\ ~gwLast'[gw.args].cached ]_vars

\* A request has failed after its one provider call.
C20_Witness ==
    \E a \in WeatherArgs :
        /\ gwLast[a] # NoCall
        /\ IsError(gwLast[a].result)
        /\ gwLast[a].calls = 1
        /\ gw = NoCall

\* The same for GetForecast: one provider call, and on a failure the error
\* with the provider's text (the response body, or the transport's error).
C20_ForecastNoRetry ==
    (fcOut # NoForecast /\ fcOut.by = "GetForecast") =>
        /\ fcOut.calls = 1
        /\ Failed(fcIn.answer) <=> "err" \in DOMAIN fcOut
        /\ "err" \in DOMAIN fcOut =>
               fcOut.err[2] = (IF fcIn.answer.failure = "non-2xx" THEN "body" ELSE "err")

(***************************************************************************)
(* C21                                                                     *)
(***************************************************************************)
FlightKey == CurrentCacheKey(FlightArgs)

\* No request is at the provider, and a request that fetched from the
\* provider returned less than the cache TTL ago.
FinishedLately ==
    /\ \A q \in Requests : flight[q].pc # "fetching"
    /\ lastFetch # NoFetch
    /\ now - lastFetch.at < WeatherCacheTTL

\* Each request goes to the provider at most once.
OneCallEach == \A r \in Requests : flight[r].calls <= 1

\* The cache holds what the latest write that reached Redis wrote.
LastWriteWins ==
    (lastFetch # NoFetch /\ lastFetch.written /\ RedisLive(redisStore, FlightKey))
        => redisStore[FlightKey].value = lastFetch.data

PresentedValid ==
    /\ jwtToken.alg \in HMACMethods
    /\ jwtToken.sig = Sign(jwtToken.alg, ServerSecret, jwtToken.claims)
    /\ now < jwtToken.claims.exp

PresentedKnown == jwtToken.claims.user_id \in DOMAIN users

RefreshAnswered(status) == authResp'.op = "refresh" /\ authResp'.status = status

C22_RefreshOnlyValid ==
    /\ [](authResp.op = "refresh" =>
            /\ authResp.token # NoToken <=> authResp.status = 200
            /\ authResp.status \in {200, 400, 401, 404})
    /\ [][\A bound \in BOOLEAN : RefreshToken(bound) =>
            /\ authResp'.token # NoToken => PresentedValid /\ PresentedKnown
            /\ bound /\ ~PresentedValid => RefreshAnswered(401)
            /\ bound /\ PresentedValid /\ ~PresentedKnown => RefreshAnswered(404)
            /\ bound /\ PresentedValid /\ PresentedKnown =>
                  /\ RefreshAnswered(200)
                  /\ authResp'.token.claims.user_id = jwtToken.claims.user_id
                  /\ authResp'.token.sig =
                        Sign("HS256", ServerSecret, authResp'.token.claims)
                  /\ now < authResp'.token.claims.exp]_vars

\* A refresh answered with a new token for a user whose row exists.
C22_Witness ==
    /\ authResp.op = "refresh"
    /\ authResp.status = 200
    /\ authResp.id \in DOMAIN users
    /\ authResp.token # NoToken

\* An expired token was refused.
C22_WitnessExpired ==
    /\ authResp.op = "refresh"
    /\ authResp.status = 401
    /\ jwtToken # NoToken
    /\ jwtToken.sig = Sign(jwtToken.alg, ServerSecret, jwtToken.claims)
    /\ now >= jwtToken.claims.exp

\* A valid token of a user without a row was refused.
C22_WitnessUnknown ==
    /\ authResp.op = "refresh"
    /\ authResp.status = 404
    /\ jwtToken # NoToken
    /\ PresentedValid
    /\ ~PresentedKnown


(***************************************************************************)
(* C23: once a user's row exists, no operation changes its identity: a     *)
(* repeat login through CreateOrUpdateUser and a profile update through    *)
(* PUT /user/me leave the row's id, its provider and its provider subject  *)
(* id as they were.                                                        *)
(***************************************************************************)
SameIdentity(i) ==
    /\ i \in DOMAIN users'
    /\ users'[i].provider = users[i].provider
    /\ users'[i].providerID = users[i].providerID

C23_IdentityKept == [][\A i \in DOMAIN users : SameIdentity(i)]_vars

\* A user who logged in twice and whose profile was then updated.
C23_Witness ==
    /\ loginHist[1] # NoLogin
    /\ loginHist[1].ok
    /\ loginHist[2].ok
    /\ loginHist[1].id = loginHist[2].id
    /\ loginHist[1].args.email # loginHist[2].args.email
    /\ authResp.op = "update"
    /\ authResp.status = 200
    /\ authResp.id = loginHist[2].id
    /\ users[authResp.id].units = "metric"


(***************************************************************************)
(* C29: every user's unit preference is "metric" or "imperial": it is      *)
(* "imperial" when the user is created and UpdateUser never stores any     *)
(* other value.                                                            *)
(***************************************************************************)
C29_UnitsMetricOrImperial ==
    \A i \in DOMAIN users : users[i].units \in {"metric", "imperial"}

\* The part of the statement about creation: a row starts as "imperial".
C29_ImperialAtCreation ==
    [][\A i \in DOMAIN users' : i \notin DOMAIN users => users'[i].units = "imperial"]_vars


(***************************************************************************)
(* C24: in the serverless HTTP functions a request whose Origin is not on  *)
(* the whitelist is answered 403 with an explanation body before any       *)
(* endpoint logic runs, and the Access-Control-Allow-Origin header is only *)
(* ever set to a whitelisted origin.                                       *)
(***************************************************************************)
C24_OriginWhitelist ==
    Answered =>
        /\ httpResp.req.origin \notin AllowedOrigins =>
              /\ httpResp.status = 403
              /\ httpResp.body = "CORS policy violation"
              /\ httpResp.data = "none"
        /\ httpResp.allowOrigin # "unset" => httpResp.allowOrigin \in AllowedOrigins

\* The handler's own part of it: a request that reaches the handler from an
\* origin off the list is answered 403 and given no data.
C24_HandlerRejects ==
    (Answered /\ httpResp.req.method # "OPTIONS"
              /\ httpResp.req.origin \notin AllowedOrigins) =>
        /\ httpResp.status = 403
        /\ httpResp.body = "CORS policy violation"
        /\ httpResp.data = "none"


(***************************************************************************)
(* C25: connect, disconnect, connect works: after DisconnectCalendar has   *)
(* removed a user's token, a later SaveToken for the same user succeeds    *)
(* and leaves the new token as the user's stored token, so that            *)
(* GetCalendarStatus reports connected and GetCalendarEvents finds it.     *)
(***************************************************************************)
Disconnected(userID) ==
    /\ ~HasLiveToken(calendarTokens, userID)
    /\ \E i \in DOMAIN calendarTokens :
          calendarTokens[i].userID = userID /\ calendarTokens[i].deleted

C25_Reconnect ==
    [][\A u \in UserIDs, t \in AccessTokens :
          (Disconnected(u) /\ SaveToken(u, t)) =>
              /\ calOp'.err = "nil"
              /\ HasLiveToken(calendarTokens', u)
              /\ calendarTokens'[GetTokenByUserID(calendarTokens', u)].accessToken = t]_vars


(***************************************************************************)
(* C26: the date filter of the forecast drops only days strictly before    *)
(* today at the forecast's place: a group of samples whose local day there *)
(* is today or later is in the answer unless the cap of five days cut it.  *)
(***************************************************************************)
\* The local days, at the forecast's place, of the provider's samples.
LocalDates ==
    {ProviderDate(fcOut.resp.list[i].dt, fcOut.resp.timezone) :
        i \in DOMAIN fcOut.resp.list}

\* Some day of the answer holds a sample of the local day d.
Kept(d) ==
    \E day \in fcOut.days : \E i \in day.items :
        ProviderDate(fcOut.resp.list[i].dt, fcOut.resp.timezone) = d

C26_FilterKeepsToday ==
    Answered5Day =>
        \A d \in LocalDates :
            d >= ProviderToday => (Kept(d) \/ Cardinality(fcOut.days) = 5)


(***************************************************************************)
(* C27: a forecast lists its days in ascending order of date with pairwise *)
(* distinct dates; when more than five days are eligible it lists the five *)
(* earliest; and the list is determined by the provider's response, so two *)
(* calls with the same response give the same list.                        *)
(***************************************************************************)
\* The dates of the days the answering handler grouped the samples into.
GroupedDates ==
    IF fcOut.by = "GetForecast"
    THEN {day.date : day \in GoDayMap(fcOut.resp.list)}
    ELSE {ProviderDate(fcOut.resp.list[i].dt, fcOut.resp.timezone) :
             i \in DOMAIN fcOut.resp.list}

Listed == {fcOut.order[k] : k \in DOMAIN fcOut.order}

Ascending == \A i, j \in DOMAIN fcOut.order : i < j => fcOut.order[i] < fcOut.order[j]

\* No eligible day left out is earlier than a day listed.
Earliest ==
    \A d \in GroupedDates \ Listed :
        d >= ProviderToday => \A k \in DOMAIN fcOut.order : fcOut.order[k] < d

C27_AscendingFiveEarliest == Answered5Day => (Ascending /\ Earliest)

\* The same, for the serverless function alone.
C27_TsAscending ==
    (Answered5Day /\ fcOut.by = "getWeatherForecast") => Ascending


(***************************************************************************)
(* C28: the current-weather and forecast operations accept every pair of   *)
(* coordinates with latitude in [-90, 90] and longitude in [-180, 180],    *)
(* latitude 0 and longitude 0 included; a request is rejected as a         *)
(* validation error only when a coordinate is missing or malformed, and    *)
(* then no provider call is made.                                          *)
(***************************************************************************)
InRange(param, bound) ==
    param.kind = "number" /\ param.value >= -bound /\ param.value <= bound

Rejected == coord.status # 200

C28_CoordinatesAccepted ==
    coord # NoCoord =>
        /\ (InRange(coord.lat, 90) /\ InRange(coord.lon, 180)) => ~Rejected
        /\ Rejected =>
              /\ coord.lat.kind # "number" \/ coord.lon.kind # "number"
              /\ ~coord.provider

\* The same for the Go handlers alone.
C28_GoAccepted ==
    (coord # NoCoord /\ coord.by = "go") =>
        /\ (InRange(coord.lat, 90) /\ InRange(coord.lon, 180)) => ~Rejected
        /\ Rejected =>
              /\ coord.lat.kind # "number" \/ coord.lon.kind # "number"
              /\ ~coord.provider


(***************************************************************************)
(* C30: a client that was rejected with 429 is admitted again by its first *)
(* request made after the window duration has elapsed since the request    *)
(* that opened the window, and that request opens a new window with the    *)
(* counter at 1; a request of one client IP never changes the counter or   *)
(* the window of another IP.                                               *)
(***************************************************************************)
\* ip was rejected in its window, and the window's duration has elapsed.
RejectedAndElapsed(ip) ==
    /\ rlWindow[ip] # NoWindow
    /\ rlWindow[ip].rejected
    /\ now - rlWindow[ip].open > rlCfg.Duration

OpensWindow(ip) ==
    /\ rlLast'.status = 200
    /\ visitors'[ip] = [lastSeen |-> now, count |-> 1]
    /\ rlWindow'[ip] = [open |-> now, admitted |-> 1, rejected |-> FALSE]

OthersUntouched(ip) ==
    \A other \in ClientIPs \ {ip} :
        /\ visitors'[other] = visitors[other]
        /\ rlWindow'[other] = rlWindow[other]

C30_ReadmittedAfterWindow ==
    [][\A ip \in ClientIPs : RateLimiter(ip) =>
          /\ RejectedAndElapsed(ip) => OpensWindow(ip)
          /\ OthersUntouched(ip)]_vars

\* The same with the window taken from the limiter's own entry: the time of
\* the request that last set the counter to 1.
C30_OwnEntry ==
    [][\A ip \in ClientIPs : RateLimiter(ip) =>
          /\ (visitors[ip] = NoVisitor \/ now - visitors[ip].lastSeen > rlCfg.Duration)
                => (rlLast'.status = 200 /\ visitors'[ip] = [lastSeen |-> now, count |-> 1])
          /\ OthersUntouched(ip)]_vars

====
